---------------------------- MODULE Spec2Model ----------------------------
(***************************************************************************)
(* Field matching and deduplication engine of RegulatorPro: the shared     *)
(* field catalog (FieldLibrary), the application types that reference it,  *)
(* the import handlers that match-or-create catalog entries, and the       *)
(* Deduplicator's merge.                                                   *)
(*                                                                         *)
(* Text is modelled as a sequence of one-character strings, so that the    *)
(* normalizers and the keyword tests work on characters as the Python code *)
(* does.                                                                   *)
(***************************************************************************)
EXTENDS Integers, Sequences, FiniteSets, TLC

(***************************************************************************)
(* Text helpers (Python str operations used by the matchers).              *)
(***************************************************************************)
LowerLetters ==
  {"a","b","c","d","e","f","g","h","i","j","k","l","m",
   "n","o","p","q","r","s","t","u","v","w","x","y","z"}

Digits == {"0","1","2","3","4","5","6","7","8","9"}

\* str.lower() on one character
LowerChar(c) ==
  CASE c = "A" -> "a" [] c = "B" -> "b" [] c = "C" -> "c" [] c = "D" -> "d"
    [] c = "E" -> "e" [] c = "F" -> "f" [] c = "G" -> "g" [] c = "H" -> "h"
    [] c = "I" -> "i" [] c = "J" -> "j" [] c = "K" -> "k" [] c = "L" -> "l"
    [] c = "M" -> "m" [] c = "N" -> "n" [] c = "O" -> "o" [] c = "P" -> "p"
    [] c = "Q" -> "q" [] c = "R" -> "r" [] c = "S" -> "s" [] c = "T" -> "t"
    [] c = "U" -> "u" [] c = "V" -> "v" [] c = "W" -> "w" [] c = "X" -> "x"
    [] c = "Y" -> "y" [] c = "Z" -> "z" [] OTHER -> c

Lower(s) == [i \in 1..Len(s) |-> LowerChar(s[i])]

StartsWith(s, p) == Len(p) <= Len(s) /\ SubSeq(s, 1, Len(p)) = p

EndsWith(s, p) == Len(p) <= Len(s) /\ SubSeq(s, Len(s) - Len(p) + 1, Len(s)) = p

\* Python's `k in s` on strings: k is a substring of s
Contains(s, k) ==
  \E i \in 1..(Len(s) - Len(k) + 1) : SubSeq(s, i, i + Len(k) - 1) = k

\* str.replace / re.sub of single characters: each character c becomes f[c]
MapChars(s, from, to) == [i \in 1..Len(s) |-> IF s[i] \in from THEN to ELSE s[i]]

\* re.sub(r'[^...]', '', s): drop every character outside keep
RECURSIVE KeepChars(_, _)
KeepChars(s, keep) ==
  IF s = <<>> THEN <<>>
  ELSE IF Head(s) \in keep THEN <<Head(s)>> \o KeepChars(Tail(s), keep)
       ELSE KeepChars(Tail(s), keep)

\* re.sub(r'c+', 'c', s): collapse runs of the character c
RECURSIVE CollapseRuns(_, _)
CollapseRuns(s, c) ==
  IF Len(s) <= 1 THEN s
  ELSE IF s[1] = c /\ s[2] = c THEN CollapseRuns(Tail(s), c)
       ELSE <<Head(s)>> \o CollapseRuns(Tail(s), c)

\* str.strip(c)
RECURSIVE StripChar(_, _)
StripChar(s, c) ==
  IF s = <<>> THEN s
  ELSE IF Head(s) = c THEN StripChar(Tail(s), c)
  ELSE IF s[Len(s)] = c THEN StripChar(SubSeq(s, 1, Len(s) - 1), c)
  ELSE s

\* ' '.join(s.split()): runs of blanks become one blank, none at the ends
JoinSplit(s) == StripChar(CollapseRuns(s, " "), " ")

(***************************************************************************)
(* The purpose taxonomy (purpose_matcher.py:17-199) and the alias table    *)
(* (field_matcher.py:13-33), in the order of the dictionaries.             *)
(***************************************************************************)
FIELD_PURPOSES ==
  <<
     \* identification.first_name: first, given, forename, fname
     [purpose |-> <<"i","d","e","n","t","i","f","i","c","a","t","i","o","n",".","f","i","r","s","t","_","n","a","m","e">>,
      keywords |-> <<<<"f","i","r","s","t">>, <<"g","i","v","e","n">>, <<"f","o","r","e","n","a","m","e">>, <<"f","n","a","m","e">>>>,
      field_type |-> "text", data_type |-> "string", category |-> "Personal Information"],
     \* identification.last_name: last, surname, family, lname
     [purpose |-> <<"i","d","e","n","t","i","f","i","c","a","t","i","o","n",".","l","a","s","t","_","n","a","m","e">>,
      keywords |-> <<<<"l","a","s","t">>, <<"s","u","r","n","a","m","e">>, <<"f","a","m","i","l","y">>, <<"l","n","a","m","e">>>>,
      field_type |-> "text", data_type |-> "string", category |-> "Personal Information"],
     \* identification.middle_name: middle, mname, initial
     [purpose |-> <<"i","d","e","n","t","i","f","i","c","a","t","i","o","n",".","m","i","d","d","l","e","_","n","a","m","e">>,
      keywords |-> <<<<"m","i","d","d","l","e">>, <<"m","n","a","m","e">>, <<"i","n","i","t","i","a","l">>>>,
      field_type |-> "text", data_type |-> "string", category |-> "Personal Information"],
     \* identification.ssn: ssn, social, security, tax, tin
     [purpose |-> <<"i","d","e","n","t","i","f","i","c","a","t","i","o","n",".","s","s","n">>,
      keywords |-> <<<<"s","s","n">>, <<"s","o","c","i","a","l">>, <<"s","e","c","u","r","i","t","y">>, <<"t","a","x">>, <<"t","i","n">>>>,
      field_type |-> "text", data_type |-> "string", category |-> "Personal Information"],
     \* identification.dob: birth, dob, born
     [purpose |-> <<"i","d","e","n","t","i","f","i","c","a","t","i","o","n",".","d","o","b">>,
      keywords |-> <<<<"b","i","r","t","h">>, <<"d","o","b">>, <<"b","o","r","n">>>>,
      field_type |-> "date", data_type |-> "date", category |-> "Personal Information"],
     \* contact.email: email, e-mail, mail
     [purpose |-> <<"c","o","n","t","a","c","t",".","e","m","a","i","l">>,
      keywords |-> <<<<"e","m","a","i","l">>, <<"e","-","m","a","i","l">>, <<"m","a","i","l">>>>,
      field_type |-> "email", data_type |-> "string", category |-> "Contact Information"],
     \* contact.phone: phone, telephone, mobile, cell, tel
     [purpose |-> <<"c","o","n","t","a","c","t",".","p","h","o","n","e">>,
      keywords |-> <<<<"p","h","o","n","e">>, <<"t","e","l","e","p","h","o","n","e">>, <<"m","o","b","i","l","e">>, <<"c","e","l","l">>, <<"t","e","l">>>>,
      field_type |-> "phone", data_type |-> "string", category |-> "Contact Information"],
     \* contact.address: address, street, addr
     [purpose |-> <<"c","o","n","t","a","c","t",".","a","d","d","r","e","s","s">>,
      keywords |-> <<<<"a","d","d","r","e","s","s">>, <<"s","t","r","e","e","t">>, <<"a","d","d","r">>>>,
      field_type |-> "text", data_type |-> "string", category |-> "Contact Information"],
     \* contact.city: city, municipality, town
     [purpose |-> <<"c","o","n","t","a","c","t",".","c","i","t","y">>,
      keywords |-> <<<<"c","i","t","y">>, <<"m","u","n","i","c","i","p","a","l","i","t","y">>, <<"t","o","w","n">>>>,
      field_type |-> "text", data_type |-> "string", category |-> "Contact Information"],
     \* contact.state: state, province, region
     [purpose |-> <<"c","o","n","t","a","c","t",".","s","t","a","t","e">>,
      keywords |-> <<<<"s","t","a","t","e">>, <<"p","r","o","v","i","n","c","e">>, <<"r","e","g","i","o","n">>>>,
      field_type |-> "select", data_type |-> "string", category |-> "Contact Information"],
     \* contact.zip: zip, postal, postcode
     [purpose |-> <<"c","o","n","t","a","c","t",".","z","i","p">>,
      keywords |-> <<<<"z","i","p">>, <<"p","o","s","t","a","l">>, <<"p","o","s","t","c","o","d","e">>>>,
      field_type |-> "text", data_type |-> "string", category |-> "Contact Information"],
     \* education.school: school, university, college, institution, alma
     [purpose |-> <<"e","d","u","c","a","t","i","o","n",".","s","c","h","o","o","l">>,
      keywords |-> <<<<"s","c","h","o","o","l">>, <<"u","n","i","v","e","r","s","i","t","y">>, <<"c","o","l","l","e","g","e">>, <<"i","n","s","t","i","t","u","t","i","o","n">>, <<"a","l","m","a">>>>,
      field_type |-> "text", data_type |-> "string", category |-> "Education"],
     \* education.degree: degree, diploma, certification
     [purpose |-> <<"e","d","u","c","a","t","i","o","n",".","d","e","g","r","e","e">>,
      keywords |-> <<<<"d","e","g","r","e","e">>, <<"d","i","p","l","o","m","a">>, <<"c","e","r","t","i","f","i","c","a","t","i","o","n">>>>,
      field_type |-> "text", data_type |-> "string", category |-> "Education"],
     \* education.graduation_date: graduation, graduated, completion
     [purpose |-> <<"e","d","u","c","a","t","i","o","n",".","g","r","a","d","u","a","t","i","o","n","_","d","a","t","e">>,
      keywords |-> <<<<"g","r","a","d","u","a","t","i","o","n">>, <<"g","r","a","d","u","a","t","e","d">>, <<"c","o","m","p","l","e","t","i","o","n">>>>,
      field_type |-> "date", data_type |-> "date", category |-> "Education"],
     \* examination.exam_name: exam, test, assessment
     [purpose |-> <<"e","x","a","m","i","n","a","t","i","o","n",".","e","x","a","m","_","n","a","m","e">>,
      keywords |-> <<<<"e","x","a","m">>, <<"t","e","s","t">>, <<"a","s","s","e","s","s","m","e","n","t">>>>,
      field_type |-> "text", data_type |-> "string", category |-> "Examination"],
     \* examination.exam_date: exam, test
     [purpose |-> <<"e","x","a","m","i","n","a","t","i","o","n",".","e","x","a","m","_","d","a","t","e">>,
      keywords |-> <<<<"e","x","a","m">>, <<"t","e","s","t">>>>,
      field_type |-> "date", data_type |-> "date", category |-> "Examination"],
     \* examination.exam_score: score, result, grade
     [purpose |-> <<"e","x","a","m","i","n","a","t","i","o","n",".","e","x","a","m","_","s","c","o","r","e">>,
      keywords |-> <<<<"s","c","o","r","e">>, <<"r","e","s","u","l","t">>, <<"g","r","a","d","e">>>>,
      field_type |-> "number", data_type |-> "number", category |-> "Examination"],
     \* professional.license_number: license, licence, registration, permit
     [purpose |-> <<"p","r","o","f","e","s","s","i","o","n","a","l",".","l","i","c","e","n","s","e","_","n","u","m","b","e","r">>,
      keywords |-> <<<<"l","i","c","e","n","s","e">>, <<"l","i","c","e","n","c","e">>, <<"r","e","g","i","s","t","r","a","t","i","o","n">>, <<"p","e","r","m","i","t">>>>,
      field_type |-> "text", data_type |-> "string", category |-> "Professional Background"],
     \* professional.employer: employer, company, organization, firm
     [purpose |-> <<"p","r","o","f","e","s","s","i","o","n","a","l",".","e","m","p","l","o","y","e","r">>,
      keywords |-> <<<<"e","m","p","l","o","y","e","r">>, <<"c","o","m","p","a","n","y">>, <<"o","r","g","a","n","i","z","a","t","i","o","n">>, <<"f","i","r","m">>>>,
      field_type |-> "text", data_type |-> "string", category |-> "Professional Background"],
     \* professional.years_experience: experience, years, practice
     [purpose |-> <<"p","r","o","f","e","s","s","i","o","n","a","l",".","y","e","a","r","s","_","e","x","p","e","r","i","e","n","c","e">>,
      keywords |-> <<<<"e","x","p","e","r","i","e","n","c","e">>, <<"y","e","a","r","s">>, <<"p","r","a","c","t","i","c","e">>>>,
      field_type |-> "number", data_type |-> "number", category |-> "Professional Background"],
     \* compliance.attestation: attest, certify, declare, affirm, swear
     [purpose |-> <<"c","o","m","p","l","i","a","n","c","e",".","a","t","t","e","s","t","a","t","i","o","n">>,
      keywords |-> <<<<"a","t","t","e","s","t">>, <<"c","e","r","t","i","f","y">>, <<"d","e","c","l","a","r","e">>, <<"a","f","f","i","r","m">>, <<"s","w","e","a","r">>>>,
      field_type |-> "checkbox", data_type |-> "boolean", category |-> "Compliance & Declarations"],
     \* compliance.consent: consent, agree, authorize, permission
     [purpose |-> <<"c","o","m","p","l","i","a","n","c","e",".","c","o","n","s","e","n","t">>,
      keywords |-> <<<<"c","o","n","s","e","n","t">>, <<"a","g","r","e","e">>, <<"a","u","t","h","o","r","i","z","e">>, <<"p","e","r","m","i","s","s","i","o","n">>>>,
      field_type |-> "checkbox", data_type |-> "boolean", category |-> "Compliance & Declarations"],
     \* compliance.criminal_history: criminal, conviction, felony, misdemeanor
     [purpose |-> <<"c","o","m","p","l","i","a","n","c","e",".","c","r","i","m","i","n","a","l","_","h","i","s","t","o","r","y">>,
      keywords |-> <<<<"c","r","i","m","i","n","a","l">>, <<"c","o","n","v","i","c","t","i","o","n">>, <<"f","e","l","o","n","y">>, <<"m","i","s","d","e","m","e","a","n","o","r">>>>,
      field_type |-> "checkbox", data_type |-> "boolean", category |-> "Compliance & Declarations"],
     \* compliance.criminal_details: criminal, conviction, details, explain
     [purpose |-> <<"c","o","m","p","l","i","a","n","c","e",".","c","r","i","m","i","n","a","l","_","d","e","t","a","i","l","s">>,
      keywords |-> <<<<"c","r","i","m","i","n","a","l">>, <<"c","o","n","v","i","c","t","i","o","n">>, <<"d","e","t","a","i","l","s">>, <<"e","x","p","l","a","i","n">>>>,
      field_type |-> "textarea", data_type |-> "string", category |-> "Compliance & Declarations"],
     \* compliance.disciplinary_action: disciplinary, sanction, suspension, revocation
     [purpose |-> <<"c","o","m","p","l","i","a","n","c","e",".","d","i","s","c","i","p","l","i","n","a","r","y","_","a","c","t","i","o","n">>,
      keywords |-> <<<<"d","i","s","c","i","p","l","i","n","a","r","y">>, <<"s","a","n","c","t","i","o","n">>, <<"s","u","s","p","e","n","s","i","o","n">>, <<"r","e","v","o","c","a","t","i","o","n">>>>,
      field_type |-> "checkbox", data_type |-> "boolean", category |-> "Compliance & Declarations"],
     \* compliance.disciplinary_details: disciplinary, details, explain
     [purpose |-> <<"c","o","m","p","l","i","a","n","c","e",".","d","i","s","c","i","p","l","i","n","a","r","y","_","d","e","t","a","i","l","s">>,
      keywords |-> <<<<"d","i","s","c","i","p","l","i","n","a","r","y">>, <<"d","e","t","a","i","l","s">>, <<"e","x","p","l","a","i","n">>>>,
      field_type |-> "textarea", data_type |-> "string", category |-> "Compliance & Declarations"],
     \* waiver.military_spouse: military, spouse, veteran
     [purpose |-> <<"w","a","i","v","e","r",".","m","i","l","i","t","a","r","y","_","s","p","o","u","s","e">>,
      keywords |-> <<<<"m","i","l","i","t","a","r","y">>, <<"s","p","o","u","s","e">>, <<"v","e","t","e","r","a","n">>>>,
      field_type |-> "checkbox", data_type |-> "boolean", category |-> "Fee Waivers"],
     \* waiver.poverty: poverty, indigent, hardship, financial
     [purpose |-> <<"w","a","i","v","e","r",".","p","o","v","e","r","t","y">>,
      keywords |-> <<<<"p","o","v","e","r","t","y">>, <<"i","n","d","i","g","e","n","t">>, <<"h","a","r","d","s","h","i","p">>, <<"f","i","n","a","n","c","i","a","l">>>>,
      field_type |-> "checkbox", data_type |-> "boolean", category |-> "Fee Waivers"]
  >>

FIELD_ALIASES ==
  <<
     \* first_name: firstname, fname, given_name, forename
     [canonical |-> <<"f","i","r","s","t","_","n","a","m","e">>,
      aliases |-> <<<<"f","i","r","s","t","n","a","m","e">>, <<"f","n","a","m","e">>, <<"g","i","v","e","n","_","n","a","m","e">>, <<"f","o","r","e","n","a","m","e">>>>],
     \* last_name: lastname, lname, surname, family_name
     [canonical |-> <<"l","a","s","t","_","n","a","m","e">>,
      aliases |-> <<<<"l","a","s","t","n","a","m","e">>, <<"l","n","a","m","e">>, <<"s","u","r","n","a","m","e">>, <<"f","a","m","i","l","y","_","n","a","m","e">>>>],
     \* middle_name: middlename, mname, middle_initial
     [canonical |-> <<"m","i","d","d","l","e","_","n","a","m","e">>,
      aliases |-> <<<<"m","i","d","d","l","e","n","a","m","e">>, <<"m","n","a","m","e">>, <<"m","i","d","d","l","e","_","i","n","i","t","i","a","l">>>>],
     \* email: email_address, e_mail, emailaddress
     [canonical |-> <<"e","m","a","i","l">>,
      aliases |-> <<<<"e","m","a","i","l","_","a","d","d","r","e","s","s">>, <<"e","_","m","a","i","l">>, <<"e","m","a","i","l","a","d","d","r","e","s","s">>>>],
     \* phone: phone_number, telephone, tel, phonenumber, mobile
     [canonical |-> <<"p","h","o","n","e">>,
      aliases |-> <<<<"p","h","o","n","e","_","n","u","m","b","e","r">>, <<"t","e","l","e","p","h","o","n","e">>, <<"t","e","l">>, <<"p","h","o","n","e","n","u","m","b","e","r">>, <<"m","o","b","i","l","e">>>>],
     \* address: street_address, street, address_line_1, addr
     [canonical |-> <<"a","d","d","r","e","s","s">>,
      aliases |-> <<<<"s","t","r","e","e","t","_","a","d","d","r","e","s","s">>, <<"s","t","r","e","e","t">>, <<"a","d","d","r","e","s","s","_","l","i","n","e","_","1">>, <<"a","d","d","r">>>>],
     \* city: municipality, town
     [canonical |-> <<"c","i","t","y">>,
      aliases |-> <<<<"m","u","n","i","c","i","p","a","l","i","t","y">>, <<"t","o","w","n">>>>],
     \* state: province, region, state_province
     [canonical |-> <<"s","t","a","t","e">>,
      aliases |-> <<<<"p","r","o","v","i","n","c","e">>, <<"r","e","g","i","o","n">>, <<"s","t","a","t","e","_","p","r","o","v","i","n","c","e">>>>],
     \* zip_code: zipcode, postal_code, postcode, zip
     [canonical |-> <<"z","i","p","_","c","o","d","e">>,
      aliases |-> <<<<"z","i","p","c","o","d","e">>, <<"p","o","s","t","a","l","_","c","o","d","e">>, <<"p","o","s","t","c","o","d","e">>, <<"z","i","p">>>>],
     \* date_of_birth: dateofbirth, dob, birth_date, birthdate
     [canonical |-> <<"d","a","t","e","_","o","f","_","b","i","r","t","h">>,
      aliases |-> <<<<"d","a","t","e","o","f","b","i","r","t","h">>, <<"d","o","b">>, <<"b","i","r","t","h","_","d","a","t","e">>, <<"b","i","r","t","h","d","a","t","e">>>>],
     \* social_security_number: socialsecurity, ssn, social_security, ss_number
     [canonical |-> <<"s","o","c","i","a","l","_","s","e","c","u","r","i","t","y","_","n","u","m","b","e","r">>,
      aliases |-> <<<<"s","o","c","i","a","l","s","e","c","u","r","i","t","y">>, <<"s","s","n">>, <<"s","o","c","i","a","l","_","s","e","c","u","r","i","t","y">>, <<"s","s","_","n","u","m","b","e","r">>>>],
     \* graduation_date: graduationdate, grad_date, date_graduated
     [canonical |-> <<"g","r","a","d","u","a","t","i","o","n","_","d","a","t","e">>,
      aliases |-> <<<<"g","r","a","d","u","a","t","i","o","n","d","a","t","e">>, <<"g","r","a","d","_","d","a","t","e">>, <<"d","a","t","e","_","g","r","a","d","u","a","t","e","d">>>>],
     \* years_of_experience: yearsexperience, experience_years, years_experience
     [canonical |-> <<"y","e","a","r","s","_","o","f","_","e","x","p","e","r","i","e","n","c","e">>,
      aliases |-> <<<<"y","e","a","r","s","e","x","p","e","r","i","e","n","c","e">>, <<"e","x","p","e","r","i","e","n","c","e","_","y","e","a","r","s">>, <<"y","e","a","r","s","_","e","x","p","e","r","i","e","n","c","e">>>>],
     \* current_employer: currentemployer, employer, employer_name
     [canonical |-> <<"c","u","r","r","e","n","t","_","e","m","p","l","o","y","e","r">>,
      aliases |-> <<<<"c","u","r","r","e","n","t","e","m","p","l","o","y","e","r">>, <<"e","m","p","l","o","y","e","r">>, <<"e","m","p","l","o","y","e","r","_","n","a","m","e">>>>],
     \* military_spouse: militaryspouse, military_spouse_status
     [canonical |-> <<"m","i","l","i","t","a","r","y","_","s","p","o","u","s","e">>,
      aliases |-> <<<<"m","i","l","i","t","a","r","y","s","p","o","u","s","e">>, <<"m","i","l","i","t","a","r","y","_","s","p","o","u","s","e","_","s","t","a","t","u","s">>>>],
     \* criminal_history: criminalhistory, criminal_record, has_criminal_history
     [canonical |-> <<"c","r","i","m","i","n","a","l","_","h","i","s","t","o","r","y">>,
      aliases |-> <<<<"c","r","i","m","i","n","a","l","h","i","s","t","o","r","y">>, <<"c","r","i","m","i","n","a","l","_","r","e","c","o","r","d">>, <<"h","a","s","_","c","r","i","m","i","n","a","l","_","h","i","s","t","o","r","y">>>>],
     \* criminal_history_details: criminalhistorydetails, criminal_details
     [canonical |-> <<"c","r","i","m","i","n","a","l","_","h","i","s","t","o","r","y","_","d","e","t","a","i","l","s">>,
      aliases |-> <<<<"c","r","i","m","i","n","a","l","h","i","s","t","o","r","y","d","e","t","a","i","l","s">>, <<"c","r","i","m","i","n","a","l","_","d","e","t","a","i","l","s">>>>],
     \* disciplinary_action: disciplinaryaction, disciplinary_history, has_disciplinary_action
     [canonical |-> <<"d","i","s","c","i","p","l","i","n","a","r","y","_","a","c","t","i","o","n">>,
      aliases |-> <<<<"d","i","s","c","i","p","l","i","n","a","r","y","a","c","t","i","o","n">>, <<"d","i","s","c","i","p","l","i","n","a","r","y","_","h","i","s","t","o","r","y">>, <<"h","a","s","_","d","i","s","c","i","p","l","i","n","a","r","y","_","a","c","t","i","o","n">>>>],
     \* disciplinary_action_details: disciplinaryactiondetails, disciplinary_details
     [canonical |-> <<"d","i","s","c","i","p","l","i","n","a","r","y","_","a","c","t","i","o","n","_","d","e","t","a","i","l","s">>,
      aliases |-> <<<<"d","i","s","c","i","p","l","i","n","a","r","y","a","c","t","i","o","n","d","e","t","a","i","l","s">>, <<"d","i","s","c","i","p","l","i","n","a","r","y","_","d","e","t","a","i","l","s">>>>]
  >>


(***************************************************************************)
(* Rows of the table field_library (FieldLibrary, app.py:91-132).          *)
(* common_aliases is a Text column: "None" is NULL, "[]" the JSON text of  *)
(* the empty list.                                                         *)
(***************************************************************************)
NoEntry ==
  [id |-> 0, field_key |-> <<>>, canonical_name |-> <<>>, field_type |-> "",
   category |-> "", usage_count |-> 0, common_aliases |-> "None"]

Ids(cat) == {e.id : e \in cat}

Keys(cat) == {e.field_key : e \in cat}

Max(S) == CHOOSE x \in S : \A y \in S : y <= x

\* INTEGER PRIMARY KEY without AUTOINCREMENT: the largest rowid plus one
NextId(cat) == IF cat = {} THEN 1 ELSE Max(Ids(cat)) + 1

\* The rows of a table scan, in rowid order
RECURSIVE Rows(_)
Rows(cat) ==
  IF cat = {} THEN <<>>
  ELSE LET e == CHOOSE x \in cat : \A y \in cat : x.id <= y.id
       IN  <<e>> \o Rows(cat \ {e})

\* FieldLibrary.query.filter_by(field_key=key).first(): None is NoEntry
ByKey(cat, key) ==
  IF key \in Keys(cat) THEN CHOOSE e \in cat : e.field_key = key ELSE NoEntry

\* FieldLibrary.query.get(id)
ById(cat, id) ==
  IF id \in Ids(cat) THEN CHOOSE e \in cat : e.id = id ELSE NoEntry

(***************************************************************************)
(* PurposeMatcher (purpose_matcher.py).                                    *)
(***************************************************************************)
\* normalize_field_name: the filler prefixes and suffixes, in list order
prefixes ==
  << <<"l","e","g","a","l">>, <<"f","o","r","m","a","l">>,
     <<"o","f","f","i","c","i","a","l">>, <<"f","u","l","l">>,
     <<"c","o","m","p","l","e","t","e">>,
     <<"a","p","p","l","i","c","a","n","t">>, <<"y","o","u","r">> >>

suffixes ==
  << <<"r","e","q","u","i","r","e","d">>, <<"o","p","t","i","o","n","a","l">>,
     <<"i","f"," ","a","p","p","l","i","c","a","b","l","e">> >>

\* for prefix in prefixes: if normalized.startswith(prefix + ' '): cut it
RECURSIVE StripPrefixes(_, _)
StripPrefixes(s, ps) ==
  IF ps = <<>> THEN s
  ELSE StripPrefixes(IF StartsWith(s, Head(ps) \o <<" ">>)
                       THEN SubSeq(s, Len(Head(ps)) + 2, Len(s)) ELSE s,
                     Tail(ps))

\* for suffix in suffixes: if normalized.endswith(' ' + suffix): cut it
RECURSIVE StripSuffixes(_, _)
StripSuffixes(s, ss) ==
  IF ss = <<>> THEN s
  ELSE StripSuffixes(IF EndsWith(s, <<" ">> \o Head(ss))
                       THEN SubSeq(s, 1, Len(s) - Len(Head(ss)) - 1) ELSE s,
                     Tail(ss))

\* re.sub(r'[^a-z0-9\s]', ' ', normalized)
BlankSpecial(s) ==
  [i \in 1..Len(s) |->
     IF s[i] \in LowerLetters \cup Digits \cup {" "} THEN s[i] ELSE " "]

normalize_field_name(name) ==
  IF name = <<>> THEN <<>>
  ELSE JoinSplit(BlankSpecial(
         StripSuffixes(StripPrefixes(Lower(name), prefixes), suffixes)))

\* The score the keywords of one purpose give a normalized name (lines 245-251)
RECURSIVE KeywordScore(_, _)
KeywordScore(normalized, keywords) ==
  IF keywords = <<>> THEN 0
  ELSE (IF Contains(normalized, Head(keywords))
          THEN 10 + (IF \/ normalized = Head(keywords)
                        \/ StartsWith(normalized, Head(keywords) \o <<" ">>)
                        \/ EndsWith(normalized, <<" ">> \o Head(keywords))
                       THEN 5 ELSE 0)
          ELSE 0)
         + KeywordScore(normalized, Tail(keywords))

\* The score of one purpose (lines 242-255)
PurposeScore(normalized, field_type, purpose_def) ==
  KeywordScore(normalized, purpose_def.keywords)
    + (IF field_type # "" /\ field_type = purpose_def.field_type THEN 20 ELSE 0)

\* max(scores.items(), key=...) over the purposes of positive score, in the
\* order of the dictionary: the first purpose of maximal score.  purpose is
\* the index in FIELD_PURPOSES, 0 while no purpose has scored.
KeepBest(best, k, score) ==
  IF score > best.score THEN [purpose |-> k, score |-> score] ELSE best

RECURSIVE BestPurpose(_, _, _, _)
BestPurpose(normalized, field_type, k, best) ==
  IF k > Len(FIELD_PURPOSES) THEN best
  ELSE BestPurpose(normalized, field_type, k + 1,
                   KeepBest(best, k,
                            PurposeScore(normalized, field_type,
                                         FIELD_PURPOSES[k])))

\* A threshold of 20 in the place of 10
AboveTwenty(best) == IF best.score >= 20 THEN best.purpose ELSE 0

\* if best_purpose[1] >= 10: return best_purpose[0]; else None (0)
AboveThreshold(best) == IF best.score >= 10 THEN best.purpose ELSE 0

\* detect_purpose: the index in FIELD_PURPOSES of the detected purpose, 0 for
\* None
detect_purpose(field_name, field_type) ==
  AboveThreshold(BestPurpose(normalize_field_name(field_name), field_type, 1,
                             [purpose |-> 0, score |-> 0]))

\* purpose.split('.')[-1]
RECURSIVE AfterLastDot(_)
AfterLastDot(s) ==
  IF \E i \in 1..Len(s) : s[i] = "."
    THEN AfterLastDot(Tail(s))
    ELSE s

\* The fallback key of suggest_field_key (lines 347-350)
KeyFromName(field_name) ==
  StripChar(CollapseRuns(KeepChars(MapChars(normalize_field_name(field_name),
                                            {" "}, "_"),
                                   LowerLetters \cup Digits \cup {"_"}),
                         "_"),
            "_")

custom_field == <<"c","u","s","t","o","m","_","f","i","e","l","d">>

\* field_key or 'custom_field'
OrCustomField(field_key) == IF field_key # <<>> THEN field_key ELSE custom_field

\* suggest_field_key once the purpose is detected (lines 342-352)
KeyOfPurpose(purpose, field_name) ==
  IF purpose # 0 THEN AfterLastDot(FIELD_PURPOSES[purpose].purpose)
  ELSE OrCustomField(KeyFromName(field_name))

suggest_field_key(field_name, field_type) ==
  KeyOfPurpose(detect_purpose(field_name, field_type), field_name)

\* suggest_category once the purpose is detected (lines 361-374)
CategoryOfPurpose(purpose, field_type) ==
  IF purpose # 0 THEN FIELD_PURPOSES[purpose].category
  ELSE IF field_type = "checkbox" THEN "Compliance & Declarations"
  ELSE IF field_type \in {"email", "phone"} THEN "Contact Information"
  ELSE IF field_type = "date" THEN "Personal Information"
  ELSE "Other"

suggest_category(field_name, field_type) ==
  CategoryOfPurpose(detect_purpose(field_name, field_type), field_type)

\* How many of the keywords occur in the text s
RECURSIVE KeywordHits(_, _)
KeywordHits(s, keywords) ==
  IF keywords = <<>> THEN 0
  ELSE (IF Contains(s, Head(keywords)) THEN 1 ELSE 0)
         + KeywordHits(s, Tail(keywords))

\* A score of three components, each counted once however many keywords
\* occur
ThreeComponents(candidate, field_name, keywords) ==
  (IF KeywordHits(candidate.field_key, keywords) > 0 THEN 3 ELSE 0)
    + (IF KeywordHits(normalize_field_name(candidate.canonical_name),
                      keywords) > 0 THEN 2 ELSE 0)
    + (IF normalize_field_name(candidate.field_key)
            = normalize_field_name(field_name) THEN 5 ELSE 0)

\* The score of one candidate (lines 303-321), in tenths: 0.3 for each
\* keyword in its field_key, 0.2 for each keyword in its normalized
\* canonical_name, 0.5 when its normalized key is the normalized input
CandidateScore(candidate, field_name, keywords) ==
  3 * KeywordHits(candidate.field_key, keywords)
    + 2 * KeywordHits(normalize_field_name(candidate.canonical_name), keywords)
    + (IF normalize_field_name(candidate.field_key)
            = normalize_field_name(field_name) THEN 5 ELSE 0)

\* (None, 0.0, None)
NoMatch == [matched |-> 0, confidence |-> 0, match_type |-> "none"]

Min(a, b) == IF a <= b THEN a ELSE b

\* if score > best_score: best_score = score; best_match = candidate
KeepBestMatch(best, candidate, score) ==
  IF score > best.score THEN [id |-> candidate.id, score |-> score] ELSE best

\* The loop over the candidates in the order the query returns them
\* (lines 299-325): the first candidate of maximal score wins, and none
\* wins while every score is 0.
RECURSIVE BestCandidate(_, _, _, _)
BestCandidate(candidates, field_name, keywords, best) ==
  IF candidates = <<>> THEN best
  ELSE BestCandidate(Tail(candidates), field_name, keywords,
                     KeepBestMatch(best, Head(candidates),
                                   CandidateScore(Head(candidates), field_name,
                                                  keywords)))

\* if best_score >= 0.5: (best_match, min(best_score, 1.0), 'purpose_match')
Accepted(best) ==
  IF best.score >= 5
    THEN [matched |-> best.id, confidence |-> Min(best.score, 10),
          match_type |-> "purpose_match"]
    ELSE NoMatch

\* field_library_query.filter_by(category=category, field_type=field_type)
Candidates(rows, category, field_type) ==
  SelectSeq(rows, LAMBDA r : r.category = category /\ r.field_type = field_type)

\* if not candidates: return (None, 0.0, None); else the best one
MatchAmong(candidates, field_name, keywords) ==
  IF candidates = <<>> THEN NoMatch
  ELSE Accepted(BestCandidate(candidates, field_name, keywords,
                              [id |-> 0, score |-> 0]))

\* PurposeMatcher.find_match once the purpose is detected (lines 277-331)
MatchOfPurpose(purpose, field_name, field_type, rows) ==
  IF purpose = 0 THEN NoMatch
  ELSE MatchAmong(Candidates(rows, FIELD_PURPOSES[purpose].category,
                             field_type),
                  field_name, FIELD_PURPOSES[purpose].keywords)

\* PurposeMatcher.find_match over the rows of the catalog in the order the
\* query returns them.  confidence is in tenths.
PurposeMatcher_find_match(field_name, field_type, rows) ==
  MatchOfPurpose(detect_purpose(field_name, field_type), field_name,
                 field_type, rows)

(***************************************************************************)
(* FieldMatcher (field_matcher.py).                                        *)
(***************************************************************************)
\* A normalization that leaves runs of underscores as they are
WithoutCollapse(field_name) ==
  StripChar(KeepChars(MapChars(Lower(field_name), {" ", "-"}, "_"),
                      LowerLetters \cup Digits \cup {"_"}),
            "_")

\* FieldMatcher.normalize_field_key
normalize_field_key(field_name) ==
  StripChar(CollapseRuns(KeepChars(MapChars(Lower(field_name), {" ", "-"}, "_"),
                                   LowerLetters \cup Digits \cup {"_"}),
                         "_"),
            "_")

\* 1. Exact key match (lines 52-55): the entry, NoEntry for None
ExactStage(field_key, cat) == ByKey(cat, field_key)

\* `x in aliases` on a list
InList(x, list) == \E i \in 1..Len(list) : list[i] = x

\* The first key of the list that the library holds (lines 60-68: the
\* canonical key first, then the aliases in list order)
RECURSIVE FirstInLibrary(_, _)
FirstInLibrary(keys, cat) ==
  IF keys = <<>> THEN NoEntry
  ELSE IF Head(keys) \in Keys(cat) THEN ByKey(cat, Head(keys))
  ELSE FirstInLibrary(Tail(keys), cat)

\* 2. Check aliases (lines 57-68), over the alias table in dictionary order
RECURSIVE AliasStage(_, _, _)
AliasStage(field_key, cat, table) ==
  IF table = <<>> THEN NoEntry
  ELSE IF /\ \/ InList(field_key, Head(table).aliases)
             \/ field_key = Head(table).canonical
          /\ FirstInLibrary(<<Head(table).canonical>> \o Head(table).aliases,
                            cat).id # 0
    THEN FirstInLibrary(<<Head(table).canonical>> \o Head(table).aliases, cat)
    ELSE AliasStage(field_key, cat, Tail(table))

\* difflib.SequenceMatcher (no junk; autojunk only concerns sequences of 200
\* elements and more).  The length of the longest common run of a from i and
\* b from j, within a[..ahi] and b[..bhi]
RECURSIVE RunLength(_, _, _, _, _, _)
RunLength(a, b, i, j, ahi, bhi) ==
  IF i > ahi \/ j > bhi THEN 0
  ELSE IF a[i] # b[j] THEN 0
  ELSE 1 + RunLength(a, b, i + 1, j + 1, ahi, bhi)

\* The blocks a[i..] = b[j..] of positive length within the two windows
MatchingBlocks(a, b, alo, ahi, blo, bhi) ==
  {[i |-> x[1], j |-> x[2], size |-> RunLength(a, b, x[1], x[2], ahi, bhi)] :
     x \in {y \in (alo..ahi) \X (blo..bhi) : a[y[1]] = b[y[2]]}}

\* find_longest_match: of the longest blocks the one that starts earliest in
\* a and, of those, the one that starts earliest in b
LongestOf(blocks) ==
  CHOOSE m \in blocks :
    \A x \in blocks :
      \/ m.size > x.size
      \/ m.size = x.size /\ m.i < x.i
      \/ m.size = x.size /\ m.i = x.i /\ m.j <= x.j

\* get_matching_blocks: the longest block, then the same to its left and to
\* its right; the value is the sum of the sizes of the blocks
RECURSIVE MatchedLength(_, _, _, _, _, _)
RECURSIVE AroundBlock(_, _, _, _, _, _, _)
AroundBlock(a, b, alo, ahi, blo, bhi, m) ==
  m.size + MatchedLength(a, b, alo, m.i - 1, blo, m.j - 1)
         + MatchedLength(a, b, m.i + m.size, ahi, m.j + m.size, bhi)

MatchedLength(a, b, alo, ahi, blo, bhi) ==
  IF MatchingBlocks(a, b, alo, ahi, blo, bhi) = {} THEN 0
  ELSE AroundBlock(a, b, alo, ahi, blo, bhi,
                   LongestOf(MatchingBlocks(a, b, alo, ahi, blo, bhi)))

\* SequenceMatcher(None, a, b).ratio(): 2.0 * matches / length, 1.0 for two
\* empty sequences; the quotient is kept as numerator and denominator
ratio(a, b) ==
  IF Len(a) + Len(b) = 0 THEN [num |-> 1, den |-> 1]
  ELSE [num |-> 2 * MatchedLength(a, b, 1, Len(a), 1, Len(b)),
        den |-> Len(a) + Len(b)]

\* x > y and x >= y on quotients of positive denominator (the floats of two
\* different quotients of such small terms differ)
Greater(x, y) == x.num * y.den > y.num * x.den

AtLeast(x, y) == x.num * y.den >= y.num * x.den

\* if similarity > best_score: best_score = similarity; best_match = field
KeepBestFuzzy(best, field, similarity) ==
  IF Greater(similarity, best.score)
    THEN [id |-> field.id, score |-> similarity] ELSE best

\* 3. Fuzzy string matching (lines 70-92), over the rows in the order the
\* query returns them: the keys are compared first, then the lowered names
RECURSIVE BestFuzzy(_, _, _, _)
BestFuzzy(rows, field_name, field_key, best) ==
  IF rows = <<>> THEN best
  ELSE BestFuzzy(Tail(rows), field_name, field_key,
                 KeepBestFuzzy(
                   KeepBestFuzzy(best, Head(rows),
                                 ratio(field_key, Head(rows).field_key)),
                   Head(rows),
                   ratio(Lower(field_name), Lower(Head(rows).canonical_name))))

\* (None, 0.0, None) of FieldMatcher.find_match
NoFieldMatch ==
  [matched |-> 0, confidence |-> [num |-> 0, den |-> 1], match_type |-> "none"]

\* A fuzzy stage that accepts the best candidate from a similarity of 0.5
AcceptsFromHalf(best) ==
  IF AtLeast(best.score, [num |-> 5, den |-> 10])
    THEN [matched |-> best.id, confidence |-> best.score,
          match_type |-> "fuzzy_match"]
    ELSE NoFieldMatch

\* if best_score >= 0.8: (best_match, best_score, 'fuzzy_match') (lines 94-99)
FuzzyStage(best) ==
  IF AtLeast(best.score, [num |-> 8, den |-> 10])
    THEN [matched |-> best.id, confidence |-> best.score,
          match_type |-> "fuzzy_match"]
    ELSE NoFieldMatch

\* FieldMatcher.find_match once the key is normalized
MatchOfKey(field_name, field_key, cat) ==
  IF ExactStage(field_key, cat).id # 0
    THEN [matched |-> ExactStage(field_key, cat).id,
          confidence |-> [num |-> 1, den |-> 1], match_type |-> "exact_key"]
  ELSE IF AliasStage(field_key, cat, FIELD_ALIASES).id # 0
    THEN [matched |-> AliasStage(field_key, cat, FIELD_ALIASES).id,
          confidence |-> [num |-> 95, den |-> 100],
          match_type |-> "alias_match"]
  ELSE FuzzyStage(BestFuzzy(Rows(cat), field_name, field_key,
                            [id |-> 0, score |-> [num |-> 0, den |-> 1]]))

\* FieldMatcher.find_match(field_name, field_library_query)
FieldMatcher_find_match(field_name, cat) ==
  MatchOfKey(field_name, normalize_field_key(field_name), cat)

(***************************************************************************)
(* SmartFieldMatcher (field_matching_api.py).                              *)
(***************************************************************************)
\* SmartFieldMatcher.normalize_field_key (lines 33-40)
SmartFieldMatcher_normalize_field_key(field_name) ==
  StripChar(CollapseRuns(KeepChars(MapChars(Lower(field_name), {" ", "-"}, "_"),
                                   LowerLetters \cup Digits \cup {"_"}),
                         "_"),
            "_")

(***************************************************************************)
(* FieldValidator (field_validator.py).                                    *)
(***************************************************************************)
\* What a call that raises ValueError gives: no key, a key being a sequence
\* of characters
ValueError == <<"ValueError">>

\* FieldValidator.normalize_field_key (lines 53-75)
FieldValidator_normalize_field_key(raw_name) ==
  IF raw_name = <<>> THEN ValueError
  ELSE IF normalize_field_key(raw_name) = <<>> THEN ValueError
  ELSE normalize_field_key(raw_name)

\* ALLOWED_FIELD_TYPES (lines 20-24)
ALLOWED_FIELD_TYPES ==
  <<"text", "email", "phone", "number", "date", "select", "radio",
    "checkbox", "textarea", "file", "url">>

\* STANDARD_CATEGORIES (lines 27-36)
STANDARD_CATEGORIES ==
  <<"Personal Information", "Contact Information", "Education",
    "Examination", "Professional Background", "Fee Waivers",
    "Compliance & Declarations", "Other">>

\* The characters of a standard category
CategoryText(category) ==
  CASE category = "Personal Information" ->
       <<"P", "e", "r", "s", "o", "n", "a", "l", " ", "I", "n",
       "f", "o", "r", "m", "a", "t", "i", "o", "n">>
  [] category = "Contact Information" ->
       <<"C", "o", "n", "t", "a", "c", "t", " ", "I", "n", "f",
       "o", "r", "m", "a", "t", "i", "o", "n">>
  [] category = "Education" ->
       <<"E", "d", "u", "c", "a", "t", "i", "o", "n">>
  [] category = "Examination" ->
       <<"E", "x", "a", "m", "i", "n", "a", "t", "i", "o", "n">>
  [] category = "Professional Background" ->
       <<"P", "r", "o", "f", "e", "s", "s", "i", "o", "n", "a",
       "l", " ", "B", "a", "c", "k", "g", "r", "o", "u", "n",
       "d">>
  [] category = "Fee Waivers" ->
       <<"F", "e", "e", " ", "W", "a", "i", "v", "e", "r", "s">>
  [] category = "Compliance & Declarations" ->
       <<"C", "o", "m", "p", "l", "i", "a", "n", "c", "e", " ",
       "&", " ", "D", "e", "c", "l", "a", "r", "a", "t", "i", "o",
       "n", "s">>
  [] category = "Other" ->
       <<"O", "t", "h", "e", "r">>

\* IMMUTABLE_PROPERTIES (line 51)
IMMUTABLE_PROPERTIES == <<"field_key", "field_type", "id">>

\* FieldValidator.validate_field_type (lines 77-85): TRUE when it returns,
\* FALSE when it raises ValueError
validate_field_type(field_type) ==
  \E i \in DOMAIN ALLOWED_FIELD_TYPES : ALLOWED_FIELD_TYPES[i] = field_type

\* The loop of normalize_category over STANDARD_CATEGORIES from index i:
\* the best match so far (0 for None) and its similarity
RECURSIVE NearestCategory(_, _, _, _)
NearestCategory(raw_category, i, best_match, best_score) ==
  IF i > Len(STANDARD_CATEGORIES) THEN
    [best_match |-> best_match, best_score |-> best_score]
  ELSE IF Greater(ratio(Lower(raw_category),
                        Lower(CategoryText(STANDARD_CATEGORIES[i]))),
                  best_score) THEN
    NearestCategory(raw_category, i + 1, i,
                    ratio(Lower(raw_category),
                          Lower(CategoryText(STANDARD_CATEGORIES[i]))))
  ELSE NearestCategory(raw_category, i + 1, best_match, best_score)

\* The end of normalize_category: the best match from similarity 0.7
FuzzyCategory(best) ==
  IF AtLeast(best.best_score, [num |-> 7, den |-> 10]) THEN
    STANDARD_CATEGORIES[best.best_match]
  ELSE "Other"

\* FieldValidator.normalize_category (lines 87-120)
normalize_category(raw_category) ==
  IF raw_category = <<>> THEN "Other"
  ELSE IF \E i \in DOMAIN STANDARD_CATEGORIES :
            CategoryText(STANDARD_CATEGORIES[i]) = raw_category THEN
    CHOOSE c \in {STANDARD_CATEGORIES[i] : i \in DOMAIN STANDARD_CATEGORIES} :
      CategoryText(c) = raw_category
  ELSE FuzzyCategory(NearestCategory(raw_category, 1, 0,
                                     [num |-> 0, den |-> 1]))

\* A Python value is modelled by the name of its type where only the type
\* is looked at (isinstance), and a dict by a function on its keys.  A
\* value given as validation rules tells whether it is a dict and holds its
\* items, a sequence of [key, type] in the order of the dict.
Rules(items) == [dict |-> TRUE, items |-> items]

NotADict == [dict |-> FALSE, items |-> <<>>]

\* VALIDATION_SCHEMA (lines 39-48): the classes a rule's value may have;
\* tuple tells whether the schema gives a tuple of classes
VALIDATION_SCHEMA ==
  [required       |-> [tuple |-> FALSE, classes |-> {"bool"}],
   min_length     |-> [tuple |-> FALSE, classes |-> {"int"}],
   max_length     |-> [tuple |-> FALSE, classes |-> {"int"}],
   pattern        |-> [tuple |-> FALSE, classes |-> {"str"}],
   min_value      |-> [tuple |-> TRUE,  classes |-> {"int", "float"}],
   max_value      |-> [tuple |-> TRUE,  classes |-> {"int", "float"}],
   allowed_values |-> [tuple |-> FALSE, classes |-> {"list"}],
   custom_message |-> [tuple |-> FALSE, classes |-> {"str"}]]

\* isinstance(value, expected_type): bool is a subclass of int
IsInstance(type, classes) ==
  type \in classes \/ (type = "bool" /\ "int" \in classes)

\* What a call gives: raised is the exception ("" when it returns), errors
\* the messages it carries, value what it returns
Returned(value) == [raised |-> "", errors |-> <<>>, value |-> value]

Raised(exception, errors) ==
  [raised |-> exception, errors |-> errors, value |-> <<>>]

\* One message: its text, the name it is about, and the prefixes put
\* before it by the callers
Message(text, about) == [prefix |-> <<>>, text |-> text, about |-> about]

Prefixed(prefix, errors) ==
  [i \in DOMAIN errors |->
     [errors[i] EXCEPT !.prefix = <<prefix>> \o errors[i].prefix]]

\* FieldValidator.validate_validation_rules (lines 122-147), the loop from
\* rule i: the first rule that is unknown or of a wrong type raises.  The
\* message of a wrong type reads expected_type.__name__, which a tuple of
\* classes does not have (AttributeError).
RECURSIVE RulesFrom(_, _)
RulesFrom(rules, i) ==
  IF i > Len(rules) THEN Returned(Rules(rules))
  ELSE IF rules[i].key \notin DOMAIN VALIDATION_SCHEMA THEN
    Raised("ValueError", <<Message("Unknown validation rule", rules[i].key)>>)
  ELSE IF ~IsInstance(rules[i].type,
                      VALIDATION_SCHEMA[rules[i].key].classes) THEN
    IF VALIDATION_SCHEMA[rules[i].key].tuple THEN
      Raised("AttributeError", <<>>)
    ELSE Raised("TypeError", <<Message("Invalid type for", rules[i].key)>>)
  ELSE RulesFrom(rules, i + 1)

validate_validation_rules(rules) ==
  IF ~rules.dict THEN
    Raised("TypeError",
           <<Message("Validation rules must be a dictionary", "")>>)
  ELSE RulesFrom(rules.items, 1)

\* The parts of validate_ufl_field: the messages each property adds
KeyErrors(field_data) ==
  IF "field_key" \notin DOMAIN field_data THEN
    <<Message("field_key is required", "field_key")>>
  ELSE IF field_data["field_key"] = <<>> THEN
    <<Message("Field name cannot be empty", "field_key")>>
  ELSE IF FieldValidator_normalize_field_key(field_data["field_key"])
            = ValueError THEN
    <<Message("produces empty key after normalization", "field_key")>>
  ELSE <<>>

NameErrors(field_data) ==
  IF "canonical_name" \notin DOMAIN field_data THEN
    <<Message("canonical_name is required", "canonical_name")>>
  ELSE <<>>

TypeErrors(field_data) ==
  IF "field_type" \notin DOMAIN field_data THEN
    <<Message("field_type is required", "field_type")>>
  ELSE IF ~validate_field_type(field_data["field_type"]) THEN
    <<Message("Invalid field type", "field_type")>>
  ELSE <<>>

RulesErrors(field_data) ==
  IF "validation_rules" \notin DOMAIN field_data THEN <<>>
  ELSE Prefixed("Invalid validation_rules: ",
                validate_validation_rules(field_data["validation_rules"]).errors)

OptionsErrors(field_data) ==
  IF "options" \in DOMAIN field_data
     /\ field_data["options"] \notin {"list", "dict"} THEN
    <<Message("options must be a list or dictionary", "options")>>
  ELSE <<>>

AliasesErrors(field_data) ==
  IF "common_aliases" \in DOMAIN field_data
     /\ field_data["common_aliases"] # "list" THEN
    <<Message("common_aliases must be a list", "common_aliases")>>
  ELSE <<>>

\* The field_data validate_ufl_field returns: key and category normalized
NormalizedData(field_data) ==
  [k \in DOMAIN field_data |->
     IF k = "field_key" THEN
       FieldValidator_normalize_field_key(field_data[k])
     ELSE IF k = "category" THEN
       CategoryText(normalize_category(field_data[k]))
     ELSE field_data[k]]

UflErrors(field_data) ==
  KeyErrors(field_data) \o NameErrors(field_data) \o TypeErrors(field_data)
    \o RulesErrors(field_data) \o OptionsErrors(field_data)
    \o AliasesErrors(field_data)

\* FieldValidator.validate_ufl_field (lines 149-200).  An exception of the
\* rules that is neither ValueError nor TypeError leaves the function as it
\* is.
validate_ufl_field(field_data) ==
  IF "validation_rules" \in DOMAIN field_data
     /\ validate_validation_rules(field_data["validation_rules"]).raised
          = "AttributeError" THEN
    Raised("AttributeError", <<>>)
  ELSE IF UflErrors(field_data) # <<>> THEN
    Raised("ValidationError", UflErrors(field_data))
  ELSE Returned(NormalizedData(field_data))

\* dict.get(key, default) of a dict given as a function on its keys
Get(dict, key, default) == IF key \in DOMAIN dict THEN dict[key] ELSE default

\* A dict whose order matters is a sequence of items [key, value]
HasKey(items, key) == \E i \in DOMAIN items : items[i].key = key

ValueOf(items, key) ==
  items[CHOOSE i \in DOMAIN items : items[i].key = key].value

\* validate_application_field, lines 217-221: one message for each immutable
\* property among the overrides, from property i of IMMUTABLE_PROPERTIES
RECURSIVE ImmutableErrors(_, _)
ImmutableErrors(overrides, i) ==
  IF i > Len(IMMUTABLE_PROPERTIES) THEN <<>>
  ELSE IF HasKey(overrides, IMMUTABLE_PROPERTIES[i]) THEN
    <<Message("Cannot override immutable property", IMMUTABLE_PROPERTIES[i])>>
      \o ImmutableErrors(overrides, i + 1)
  ELSE ImmutableErrors(overrides, i + 1)

\* lines 224-230: the override of the validation rules
OverrideRules(overrides) ==
  IF HasKey(overrides, "validation") THEN
    validate_validation_rules(ValueOf(overrides, "validation"))
  ELSE Returned(<<>>)

\* lines 209-230: the field references a catalog entry (ufl_field is NoEntry
\* for None)
ReferenceErrors(field_data, ufl_field) ==
  IF ufl_field.id = 0 THEN
    <<Message("Referenced UFL field does not exist", "")>>
  ELSE ImmutableErrors(Get(field_data, "overrides", <<>>), 1)
         \o Prefixed("Invalid override validation: ",
                     OverrideRules(Get(field_data, "overrides", <<>>)).errors)

\* lines 233-243: the field is a custom field
CustomErrors(custom) ==
  IF DOMAIN custom = {} THEN
    <<Message("Either field_library_id or custom_field is required", "")>>
  ELSE Prefixed("Custom field: ", validate_ufl_field(custom).errors)

\* The exception that is not caught on the way, "" when there is none
Uncaught(field_data, ufl_field) ==
  IF Get(field_data, "field_library_id", 0) # 0 THEN
    IF ufl_field.id # 0
       /\ OverrideRules(Get(field_data, "overrides", <<>>)).raised
            = "AttributeError" THEN "AttributeError"
    ELSE ""
  ELSE IF DOMAIN Get(field_data, "custom_field", <<>>) # {}
          /\ validate_ufl_field(field_data["custom_field"]).raised
               = "AttributeError" THEN "AttributeError"
  ELSE ""

ApplicationErrors(field_data, ufl_field) ==
  IF Get(field_data, "field_library_id", 0) # 0 THEN
    ReferenceErrors(field_data, ufl_field)
  ELSE CustomErrors(Get(field_data, "custom_field", <<>>))

\* The field_data validate_application_field returns: the custom field as
\* validate_ufl_field returns it
ValidatedData(field_data) ==
  [k \in DOMAIN field_data |->
     IF k = "custom_field" /\ Get(field_data, "field_library_id", 0) = 0 THEN
       validate_ufl_field(field_data[k]).value
     ELSE field_data[k]]

\* FieldValidator.validate_application_field (lines 202-249)
validate_application_field(field_data, ufl_field) ==
  IF Uncaught(field_data, ufl_field) # "" THEN
    Raised(Uncaught(field_data, ufl_field), <<>>)
  ELSE IF ApplicationErrors(field_data, ufl_field) # <<>> THEN
    Raised("ValidationError", ApplicationErrors(field_data, ufl_field))
  ELSE Returned(ValidatedData(field_data))

\* merge_field_config, lines 258-267: the configuration of the entry.  The
\* column validation_rules is a text ("None" for NULL): `or {}` gives the
\* empty dict for NULL and the text itself otherwise.
DefaultConfig(ufl_field) ==
  [field_key        |-> ufl_field.field_key,
   field_type       |-> ufl_field.field_type,
   canonical_name   |-> ufl_field.canonical_name,
   category         |-> ufl_field.category,
   validation_rules |-> IF ufl_field.validation_rules = "None"
                        THEN Rules(<<>>)
                        ELSE [dict |-> FALSE, items |-> <<>>],
   options          |-> ufl_field.options,
   help_text        |-> ufl_field.help_text,
   placeholder      |-> ufl_field.placeholder]

\* dict.update of the rules a with the rules b: the keys of a take the
\* values of b, the other keys of b follow
Updated(a, b) ==
  [i \in DOMAIN a |->
     IF HasKey(b, a[i].key)
     THEN b[CHOOSE j \in DOMAIN b : b[j].key = a[i].key]
     ELSE a[i]]
    \o SelectSeq(b, LAMBDA rule : ~HasKey(a, rule.key))

\* An override applied without the test of IMMUTABLE_PROPERTIES
OverriddenAll(config, key, value) ==
  IF key = "validation" THEN
    IF ~config["validation_rules"].dict THEN Raised("AttributeError", <<>>)
    ELSE IF ~value.dict THEN Raised("TypeError", <<>>)
    ELSE Returned([config EXCEPT !["validation_rules"] =
                            Rules(Updated(@.items, value.items))])
  ELSE IF key = "display_name" THEN
    Returned([config EXCEPT !["canonical_name"] = value])
  ELSE Returned([k \in DOMAIN config \cup {key} |->
                   IF k = key THEN value ELSE config[k]])

\* lines 270-278: one override applied to the configuration.  update() of
\* a text raises AttributeError, update() with a value that is no dict
\* raises TypeError.
Overridden(config, key, value) ==
  IF \E i \in DOMAIN IMMUTABLE_PROPERTIES : IMMUTABLE_PROPERTIES[i] = key THEN
    Returned(config)
  ELSE IF key = "validation" THEN
    IF ~config["validation_rules"].dict THEN Raised("AttributeError", <<>>)
    ELSE IF ~value.dict THEN Raised("TypeError", <<>>)
    ELSE Returned([config EXCEPT !["validation_rules"] =
                            Rules(Updated(@.items, value.items))])
  ELSE IF key = "display_name" THEN
    Returned([config EXCEPT !["canonical_name"] = value])
  ELSE Returned([k \in DOMAIN config \cup {key} |->
                   IF k = key THEN value ELSE config[k]])

\* lines 270-278: the loop over the overrides from item i
RECURSIVE MergedFrom(_, _, _)
MergedFrom(config, overrides, i) ==
  IF i > Len(overrides) THEN Returned(config)
  ELSE IF Overridden(config, overrides[i].key, overrides[i].value).raised
            # "" THEN
    Overridden(config, overrides[i].key, overrides[i].value)
  ELSE MergedFrom(Overridden(config, overrides[i].key,
                             overrides[i].value).value,
                  overrides, i + 1)

\* FieldValidator.merge_field_config (lines 251-280)
merge_field_config(ufl_field, overrides) ==
  MergedFrom(DefaultConfig(ufl_field), overrides, 1)

(***************************************************************************)
(* FieldDeduplicator.find_duplicates (field_validator.py:286-315).         *)
(***************************************************************************)
\* A pair is similar whatever the types of its entries
SimilarNameOfAnyType(field1, field2) ==
  AtLeast(ratio(Lower(field1.canonical_name), Lower(field2.canonical_name)),
          [num |-> 9, den |-> 10])

\* lines 303-312: same type and similarity of the names from 0.9
SimilarName(field1, field2) ==
  /\ field1.field_type = field2.field_type
  /\ AtLeast(ratio(Lower(field1.canonical_name), Lower(field2.canonical_name)),
             [num |-> 9, den |-> 10])

\* lines 297-313: what one pair adds to duplicates
PairOf(field1, field2) ==
  IF field1.field_key = field2.field_key THEN
    <<[field1 |-> field1, field2 |-> field2,
       similarity |-> [num |-> 1, den |-> 1], kind |-> "exact_key"]>>
  ELSE IF SimilarName(field1, field2) THEN
    <<[field1 |-> field1, field2 |-> field2,
       similarity |-> ratio(Lower(field1.canonical_name),
                            Lower(field2.canonical_name)),
       kind |-> "similar_name"]>>
  ELSE <<>>

\* line 296: for field2 in all_fields[i+1:]
RECURSIVE PairsWith(_, _)
PairsWith(field1, later) ==
  IF later = <<>> THEN <<>>
  ELSE PairOf(field1, Head(later)) \o PairsWith(field1, Tail(later))

\* line 295: for i, field1 in enumerate(all_fields)
RECURSIVE find_duplicates(_)
find_duplicates(all_fields) ==
  IF all_fields = <<>> THEN <<>>
  ELSE PairsWith(Head(all_fields), Tail(all_fields))
         \o find_duplicates(Tail(all_fields))

(***************************************************************************)
(* Inputs of the model: the descriptors, CSV rows and catalog items that   *)
(* requests carry.                                                         *)
(***************************************************************************)
First_Name == <<"F","i","r","s","t"," ","N","a","m","e">>
Given_Name == <<"G","i","v","e","n"," ","N","a","m","e">>
first_name == <<"f","i","r","s","t","_","n","a","m","e">>
given_name == <<"g","i","v","e","n","_","n","a","m","e">>

\* Descriptors of create_application_type / update_application_type
Descriptors ==
  { [name |-> First_Name, type |-> "text"],
    [name |-> Given_Name, type |-> "text"] }

\* Rows of a CSV file after CSVParser._parse_row: name is the normalized
\* field_name column
CsvRows ==
  { [name |-> first_name, type |-> "text", label |-> First_Name,
     category |-> "Personal Information"],
    [name |-> first_name, type |-> "textarea", label |-> First_Name,
     category |-> "Other"] }

\* Bodies of POST /api/field-library (endpoint 1, create_field_library_item)
\* and of POST /api/fields (endpoint 2)
Items ==
  { [endpoint |-> 1, field_key |-> first_name, canonical_name |-> First_Name,
     field_type |-> "text", category |-> "Personal Information",
     usage_count |-> 1],
    [endpoint |-> 2, field_key |-> given_name, canonical_name |-> Given_Name,
     field_type |-> "text", category |-> "Personal Information",
     usage_count |-> 0] }

\* Number of concurrent requests (Flask serves each request in its own
\* thread with its own session), of requests over a run and of fields in a
\* request
NumProcs == 2
MaxRequests == 2
MaxFields == 2

\* The catalogs a run may start from: rows that earlier requests to
\* create_field_library_item have left
SeedFirstName ==
  [id |-> 1, field_key |-> first_name, canonical_name |-> First_Name,
   field_type |-> "text", category |-> "Personal Information",
   usage_count |-> 1, common_aliases |-> "[]"]

SeedGivenName ==
  [id |-> 2, field_key |-> given_name, canonical_name |-> Given_Name,
   field_type |-> "text", category |-> "Personal Information",
   usage_count |-> 2, common_aliases |-> "[]"]

InitialCatalogs == {{}, {SeedFirstName}, {SeedFirstName, SeedGivenName}}

Procs == 1..NumProcs

\* The field lists a request may carry: every list of 1..MaxFields elements
ListsOf(S) == UNION {[1..n -> S] : n \in 1..MaxFields}

(***************************************************************************)
(* State.                                                                  *)
(*                                                                         *)
(* catalog and apps are the committed tables field_library and             *)
(* application_type of the SQLite database.  A session that has flushed    *)
(* holds the database's write lock until it commits or rolls back; its     *)
(* uncommitted image of the tables is tx, which no other session sees.     *)
(* req[p] is the state of the request that thread p is serving; started    *)
(* counts the requests of the run.                                         *)
(*                                                                         *)
(* replay belongs to the replay runs (one client that sends the same       *)
(* import twice): the import that is replayed and the catalog as it was    *)
(* when the current pass began.  probe belongs to the matcher runs (one    *)
(* call of the matchers on a catalog): the call and what it returned.      *)
(***************************************************************************)
VARIABLES catalog, apps, lock, tx, req, started, replay, probe

vars == <<catalog, apps, lock, tx, req, started, replay, probe>>

NoTx == [catalog |-> {}, apps |-> <<>>]

\* A request: op and pc say which handler runs and where it is; result is
\* what the caller gets.  dirty holds the objects whose usage_count the
\* session has changed and not flushed; refs, matched, new_fields and map
\* are the handler's local lists.  uses lists the ids of the entries the
\* request has reused, made the keys of the entries it has inserted and
\* absent the keys it has looked up and not found.
IdleReq ==
  [op |-> "idle", pc |-> "idle", result |-> "", fields |-> <<>>, i |-> 0,
   target |-> 0, dirty |-> {}, refs |-> <<>>, pending |-> NoEntry,
   matched |-> <<>>, new_fields |-> <<>>, map |-> <<>>,
   primary |-> NoEntry, duplicate |-> NoEntry, merged |-> NoEntry,
   uses |-> <<>>, made |-> {}, absent |-> {}]

NoReplay == [op |-> "", fields |-> <<>>, before |-> {}]

NoProbe ==
  [pc |-> "", field_name |-> <<>>, field_type |-> "", purpose |-> NoMatch,
   exact |-> 0, alias |-> 0, field |-> NoFieldMatch, linked |-> 0,
   key |-> <<>>, valid |-> <<>>]

\* A session that sees only the rows it has written itself
OwnRowsOnly(p) == IF lock = p THEN tx ELSE NoTx

\* What the session of p reads: its own uncommitted image once it has
\* flushed, the committed tables otherwise
Visible(p) == IF lock = p THEN tx ELSE [catalog |-> catalog, apps |-> apps]

\* The session of p may write: nobody else holds the write lock
CanWrite(p) == lock \in {0, p}

\* UPDATE field_library SET usage_count = ? WHERE id = ? for each dirty
\* object: the value written is the one computed in Python
Flushed(img, dirty) ==
  [img EXCEPT !.catalog =
     {IF \E d \in dirty : d.id = e.id
        THEN [e EXCEPT !.usage_count =
                (CHOOSE d \in dirty : d.id = e.id).usage_count]
        ELSE e : e \in img.catalog}]

\* An UPDATE that matches no row: SQLAlchemy raises StaleDataError
Stale(img, dirty) == \E d \in dirty : d.id \notin Ids(img.catalog)

\* `obj.usage_count += 1` on the object loaded from row e
Incremented(e) == [id |-> e.id, usage_count |-> e.usage_count + 1]

\* A column field_key declared without unique=True: no INSERT is refused
WithoutUniqueConstraint(cat, key) == FALSE

\* The unique constraint on field_library.field_key (app.py:96): an INSERT
\* of a key the table already holds raises IntegrityError
UniqueViolation(cat, key) == key \in Keys(cat)

\* A request ends: its result is set; of the handler's locals only the
\* arguments of a merge and the keys looked up and inserted are kept
Ended(p, result) ==
  [req EXCEPT ![p] = [IdleReq EXCEPT !.op = req[p].op, !.pc = "done",
                                     !.result = result,
                                     !.primary = req[p].primary,
                                     !.duplicate = req[p].duplicate,
                                     !.made = req[p].made,
                                     !.absent = req[p].absent]]

\* A rollback that keeps what the session has flushed
KeepsFlushed(p) ==
  /\ lock' = IF lock = p THEN 0 ELSE lock
  /\ tx' = IF lock = p THEN NoTx ELSE tx
  /\ catalog' = IF lock = p THEN tx.catalog ELSE catalog
  /\ apps' = IF lock = p THEN tx.apps ELSE apps

\* db.session.rollback() in the handler's `except Exception`: the
\* uncommitted image is discarded and the write lock freed
Rollback(p) ==
  /\ lock' = IF lock = p THEN 0 ELSE lock
  /\ tx' = IF lock = p THEN NoTx ELSE tx
  /\ UNCHANGED <<catalog, apps>>

CanStart(p) == req[p].pc \in {"idle", "done"} /\ started < MaxRequests

(***************************************************************************)
(* create_application_type (POST, app.py:1912-2019) and                    *)
(* update_application_type (PUT, app.py:2021-2160): for each field, match  *)
(* it to a catalog entry or create one; then write the application type    *)
(* with its references.  target is 0 for POST and the row of the           *)
(* application type for PUT.                                               *)
(***************************************************************************)
ApplicationTypeRequest(fields, target) ==
  [IdleReq EXCEPT !.op = IF target = 0 THEN "create_application_type"
                                       ELSE "update_application_type",
                  !.pc = "lookup", !.fields = fields, !.i = 1,
                  !.target = target]

StartApplicationType(p, fields, target) ==
  /\ CanStart(p)
  /\ req' = [req EXCEPT ![p] = ApplicationTypeRequest(fields, target)]
  /\ started' = started + 1
  /\ UNCHANGED <<catalog, apps, lock, tx, replay, probe>>

\* The queries of one loop iteration autoflush what the iteration before
\* left dirty (and, for PUT, the modified application type)
NeedsFlush(p) ==
  \/ req[p].dirty # {}
  \/ req[p].op = "update_application_type" /\ lock # p

AfterAutoflush(p) ==
  IF NeedsFlush(p) THEN Flushed(Visible(p), req[p].dirty) ELSE Visible(p)

\* pc and i after element i of a list of n elements has been handled
Advance(r, n, last) ==
  IF r.i + 1 > n
    THEN [r EXCEPT !.i = r.i + 1, !.pc = last]
    ELSE [r EXCEPT !.i = r.i + 1]

\* The entry create_application_type would insert for a field (lines
\* 1945-1946 and 1958-1970), given the purpose detect_purpose returns
NewFieldFor(field_data, purpose) ==
  [NoEntry EXCEPT
     !.field_key = KeyOfPurpose(purpose, field_data.name),
     !.canonical_name = field_data.name,
     !.field_type = field_data.type,
     !.category = CategoryOfPurpose(purpose, field_data.type),
     !.usage_count = 1]

\* Lines 1937-1956: the entry the iteration reuses, NoEntry when it has to
\* create one.  `match and confidence >= 0.5`, else the entry that holds
\* the suggested key.
FoundFor(match, field_key, cat) ==
  IF match.matched # 0 /\ match.confidence >= 5
    THEN ById(cat, match.matched)
    ELSE ByKey(cat, field_key)

\* The request after the decision: the reuse of found, or the way to the
\* INSERT of new_field
Decided(r, found, new_field) ==
  IF found.id # 0
    THEN Advance([r EXCEPT !.dirty = {Incremented(found)},
                           !.refs = Append(r.refs, found.id),
                           !.uses = Append(r.uses, found.id)],
                 Len(r.fields), "commit")
    ELSE [r EXCEPT !.dirty = {}, !.pc = "insert", !.pending = new_field,
                   !.absent = r.absent \cup {new_field.field_key}]

\* One iteration up to the decision (lines 1926-1956) on the image img the
\* session reads.  PurposeMatcher.find_match, suggest_field_key and
\* suggest_category call detect_purpose with the same arguments: purpose is
\* its value.
Resolved(r, img, purpose) ==
  Decided(r,
          FoundFor(MatchOfPurpose(purpose, r.fields[r.i].name,
                                  r.fields[r.i].type, Rows(img.catalog)),
                   KeyOfPurpose(purpose, r.fields[r.i].name), img.catalog),
          NewFieldFor(r.fields[r.i], purpose))

\* An element of data['fields'] that is a JSON object: field_data.get works
IsObject(field_data) == "name" \in DOMAIN field_data

LookupField(p) ==
  /\ req[p].op \in {"create_application_type", "update_application_type"}
  /\ req[p].pc = "lookup"
  /\ IsObject(req[p].fields[req[p].i])
  /\ NeedsFlush(p) => CanWrite(p)
  /\ IF NeedsFlush(p) /\ Stale(Visible(p), req[p].dirty)
       THEN /\ req' = Ended(p, "StaleDataError")
            /\ Rollback(p)
       ELSE /\ req' = [req EXCEPT ![p] =
                         Resolved(req[p], AfterAutoflush(p),
                                  detect_purpose(req[p].fields[req[p].i].name,
                                                 req[p].fields[req[p].i].type))]
            /\ lock' = IF NeedsFlush(p) THEN p ELSE lock
            /\ tx' = IF NeedsFlush(p) THEN AfterAutoflush(p) ELSE tx
            /\ UNCHANGED <<catalog, apps>>
  /\ UNCHANGED <<started, replay, probe>>

\* An element of data['fields'] that is no object: field_data.get raises
\* AttributeError (line 1927), and the handler's `except Exception` rolls
\* back (lines 2017-2019)
DescriptorRaises(p) ==
  /\ req[p].op = "create_application_type"
  /\ req[p].pc = "lookup"
  /\ ~IsObject(req[p].fields[req[p].i])
  /\ req' = Ended(p, "AttributeError")
  /\ Rollback(p)
  /\ UNCHANGED <<started, replay, probe>>

\* The request after the INSERT of row
Inserted(r, row) ==
  IF r.op = "import_csv"
    THEN Advance([r EXCEPT !.pending = NoEntry,
                           !.made = r.made \cup {row.field_key},
                           !.map = Append(r.map,
                                          [label |-> r.new_fields[r.i].label,
                                           id |-> row.id]),
                           !.pc = "csv_new"],
                 Len(r.new_fields), "commit")
    ELSE Advance([r EXCEPT !.pending = NoEntry,
                           !.made = r.made \cup {row.field_key},
                           !.refs = Append(r.refs, row.id),
                           !.pc = "lookup"],
                 Len(r.fields), "commit")

\* db.session.add(new_field); db.session.flush(): the INSERT, under the
\* unique constraint on field_key (create_application_type lines 1971-1973,
\* import_csv lines 2458-2460 and 2475-2477)
InsertField(p) ==
  /\ req[p].pc = "insert"
  /\ CanWrite(p)
  /\ IF UniqueViolation(Visible(p).catalog, req[p].pending.field_key)
       THEN /\ req' = Ended(p, "IntegrityError")
            /\ Rollback(p)
       ELSE /\ req' = [req EXCEPT ![p] =
                         Inserted(req[p],
                                  [req[p].pending EXCEPT
                                     !.id = NextId(Visible(p).catalog)])]
            /\ lock' = p
            /\ tx' = [Visible(p) EXCEPT
                        !.catalog = Visible(p).catalog
                                      \cup {[req[p].pending EXCEPT
                                               !.id = NextId(Visible(p).catalog)]}]
            /\ UNCHANGED <<catalog, apps>>
  /\ UNCHANGED <<started, replay, probe>>

(***************************************************************************)
(* import_csv (POST /api/application-types/import-csv, app.py:2395-2530).  *)
(***************************************************************************)
ImportCsvRequest(fields) ==
  [IdleReq EXCEPT !.op = "import_csv", !.pc = "csv_match", !.fields = fields,
                  !.i = 1]

StartImportCsv(p, fields) ==
  /\ CanStart(p)
  /\ req' = [req EXCEPT ![p] = ImportCsvRequest(fields)]
  /\ started' = started + 1
  /\ UNCHANGED <<catalog, apps, lock, tx, replay, probe>>

\* The phase that follows the matching of the rows, or the one that follows
\* the matched fields: a loop over an empty list does nothing
PhaseAfterMatch(r) ==
  IF r.matched # <<>> THEN [r EXCEPT !.pc = "csv_matched", !.i = 1]
  ELSE IF r.new_fields # <<>> THEN [r EXCEPT !.pc = "csv_new", !.i = 1]
  ELSE [r EXCEPT !.pc = "commit"]

PhaseAfterMatched(r) ==
  IF r.new_fields # <<>> THEN [r EXCEPT !.pc = "csv_new", !.i = 1]
  ELSE [r EXCEPT !.pc = "commit"]

\* csv_parser.py:213-224: the row joins matched_fields or new_fields
Sorted(r, match) ==
  IF match.matched # 0 /\ match.confidence >= 5
    THEN [r EXCEPT !.matched =
            Append(r.matched, [field_library_id |-> match.matched,
                               display_name |-> r.fields[r.i].label])]
    ELSE [r EXCEPT !.new_fields = Append(r.new_fields, r.fields[r.i])]

\* The request after row i has been sorted
NextRow(r, s) ==
  IF r.i + 1 > Len(r.fields) THEN PhaseAfterMatch(s)
  ELSE [s EXCEPT !.i = r.i + 1]

\* CSVParser.create_application_type_from_csv, one row (csv_parser.py:194-227)
CsvMatchRow(p) ==
  /\ req[p].pc = "csv_match"
  /\ req' = [req EXCEPT ![p] =
               NextRow(req[p],
                       Sorted(req[p],
                              PurposeMatcher_find_match(
                                req[p].fields[req[p].i].label,
                                req[p].fields[req[p].i].type,
                                Rows(Visible(p).catalog))))]
  /\ UNCHANGED <<catalog, apps, lock, tx, started, replay, probe>>

\* Lines 2427-2430 for the matched field and the entry field_lib that
\* FieldLibrary.query.get returns (NoEntry for None)
MatchedFieldDone(r, field_lib) ==
  IF field_lib.id # 0
    THEN [r EXCEPT !.dirty = {Incremented(field_lib)},
                   !.uses = Append(r.uses, field_lib.id),
                   !.map = Append(r.map,
                                  [label |-> r.matched[r.i].display_name,
                                   id |-> field_lib.id])]
    ELSE [r EXCEPT !.dirty = {}]

\* The request after matched field i
NextMatched(r, s) ==
  IF r.i + 1 > Len(r.matched) THEN PhaseAfterMatched(s)
  ELSE [s EXCEPT !.i = r.i + 1]

\* What the session reads after the autoflush of its dirty objects
AfterFlushOfDirty(p) ==
  IF req[p].dirty # {} THEN Flushed(Visible(p), req[p].dirty) ELSE Visible(p)

\* One matched field (app.py:2426-2430)
CsvMatchedField(p) ==
  /\ req[p].pc = "csv_matched"
  /\ req[p].dirty # {} => CanWrite(p)
  /\ IF req[p].dirty # {} /\ Stale(Visible(p), req[p].dirty)
       THEN /\ req' = Ended(p, "StaleDataError")
            /\ Rollback(p)
       ELSE /\ req' = [req EXCEPT ![p] =
                         NextMatched(req[p],
                           MatchedFieldDone(req[p],
                             ById(AfterFlushOfDirty(p).catalog,
                                  req[p].matched[req[p].i].field_library_id)))]
            /\ lock' = IF req[p].dirty # {} THEN p ELSE lock
            /\ tx' = IF req[p].dirty # {} THEN AfterFlushOfDirty(p) ELSE tx
            /\ UNCHANGED <<catalog, apps>>
  /\ UNCHANGED <<started, replay, probe>>

\* The text of a field type, for the variant key f"{name}_{type}"
TypeText(t) ==
  CASE t = "text" -> <<"t","e","x","t">>
    [] t = "textarea" -> <<"t","e","x","t","a","r","e","a">>
    [] t = "email" -> <<"e","m","a","i","l">>
    [] t = "date" -> <<"d","a","t","e">>

\* The entry import_csv would insert for a new field (app.py:2446-2457 and
\* 2463-2474); variant tells whether the key gets the type suffix
CsvEntryFor(new_field, variant) ==
  [NoEntry EXCEPT
     !.field_key = IF variant
                     THEN new_field.name \o <<"_">> \o TypeText(new_field.type)
                     ELSE new_field.name,
     !.canonical_name = new_field.label,
     !.field_type = new_field.type,
     !.category = new_field.category,
     !.usage_count = 1]

\* Lines 2435-2477 for new field i and the entry existing that holds its
\* key (NoEntry for None): the reuse of an entry of the same type, or the
\* way to the INSERT of a new entry (under the variant key when an entry of
\* another type holds the key)
NewFieldDone(r, existing) ==
  IF existing.id # 0 /\ existing.field_type = r.new_fields[r.i].type
    THEN Advance([r EXCEPT !.dirty = {Incremented(existing)},
                           !.uses = Append(r.uses, existing.id),
                           !.map = Append(r.map,
                                          [label |-> r.new_fields[r.i].label,
                                           id |-> existing.id])],
                 Len(r.new_fields), "commit")
    ELSE [r EXCEPT !.dirty = {}, !.pc = "insert",
                   !.pending = CsvEntryFor(r.new_fields[r.i], existing.id # 0),
                   !.absent = IF existing.id = 0
                                THEN r.absent \cup {r.new_fields[r.i].name}
                                ELSE r.absent]

\* One new field up to the decision (app.py:2433-2462)
CsvNewField(p) ==
  /\ req[p].pc = "csv_new"
  /\ req[p].dirty # {} => CanWrite(p)
  /\ IF req[p].dirty # {} /\ Stale(Visible(p), req[p].dirty)
       THEN /\ req' = Ended(p, "StaleDataError")
            /\ Rollback(p)
       ELSE /\ req' = [req EXCEPT ![p] =
                         NewFieldDone(req[p],
                           ByKey(AfterFlushOfDirty(p).catalog,
                                 req[p].new_fields[req[p].i].name))]
            /\ lock' = IF req[p].dirty # {} THEN p ELSE lock
            /\ tx' = IF req[p].dirty # {} THEN AfterFlushOfDirty(p) ELSE tx
            /\ UNCHANGED <<catalog, apps>>
  /\ UNCHANGED <<started, replay, probe>>

\* field_library_map.get(label): the id the map holds for a label, 0 for none
\* (a later assignment to the same label replaces the earlier one)
RECURSIVE MapGet(_, _)
MapGet(map, label) ==
  IF map = <<>> THEN 0
  ELSE IF map[Len(map)].label = label THEN map[Len(map)].id
  ELSE MapGet(SubSeq(map, 1, Len(map) - 1), label)

\* The references of the CSV's fields (app.py:2480-2494)
RECURSIVE CsvReferences(_, _)
CsvReferences(fields, map) ==
  IF fields = <<>> THEN <<>>
  ELSE (IF MapGet(map, Head(fields).label) # 0
          THEN <<MapGet(map, Head(fields).label)>> ELSE <<>>)
         \o CsvReferences(Tail(fields), map)

(***************************************************************************)
(* The end of the three handlers: the application type is written and the  *)
(* session commits.  form_fields_v2 is the JSON text of the references     *)
(* (has_v2 tells whether the column holds a text; refs are the             *)
(* field_library_id values in it).                                         *)
(***************************************************************************)
FormFieldsV2(refs) == [has_v2 |-> TRUE, refs |-> refs]

\* field_references of the request
ReferencesOf(r) ==
  IF r.op = "import_csv" THEN CsvReferences(r.fields, r.map) ELSE r.refs

\* The table application_type after the INSERT (POST, import_csv) or the
\* UPDATE (PUT) of the application type
WithApplicationType(app_types, r) ==
  IF r.target = 0
    THEN Append(app_types, FormFieldsV2(ReferencesOf(r)))
    ELSE [app_types EXCEPT ![r.target] = FormFieldsV2(ReferencesOf(r))]

CommitApplicationType(p) ==
  /\ req[p].pc = "commit"
  /\ CanWrite(p)
  /\ IF Stale(Visible(p), req[p].dirty)
       THEN /\ req' = Ended(p, "StaleDataError")
            /\ Rollback(p)
       ELSE /\ req' = Ended(p, "ok")
            /\ catalog' = Flushed(Visible(p), req[p].dirty).catalog
            /\ apps' = WithApplicationType(Visible(p).apps, req[p])
            /\ lock' = 0
            /\ tx' = NoTx
  /\ UNCHANGED <<started, replay, probe>>

(***************************************************************************)
(* FieldDeduplicator.merge_fields(primary_field, duplicate_field, session) *)
(* (field_validator.py:317-350).  The caller has loaded the two entries.   *)
(***************************************************************************)
StartMerge(p, primary_field, duplicate_field) ==
  /\ CanStart(p)
  /\ primary_field \in catalog
  /\ duplicate_field \in catalog
  /\ primary_field.id # duplicate_field.id
  /\ req' = [req EXCEPT ![p] =
               [IdleReq EXCEPT !.op = "merge_fields", !.pc = "merge_read",
                               !.primary = primary_field,
                               !.duplicate = duplicate_field]]
  /\ started' = started + 1
  /\ UNCHANGED <<catalog, apps, lock, tx, replay, probe>>

\* Lines 327-335.  form_fields_v2 is a Text column (app.py:172): the loop
\* `for field in fields` runs over the characters of the JSON text, and
\* field.get raises AttributeError at the first one.  An application type
\* whose form_fields_v2 is NULL is skipped.
RewriteRaises(app_types) ==
  \E k \in 1..Len(app_types) : app_types[k].has_v2

\* Lines 338-343 on common_aliases, a Text column holding JSON text: the loop
\* runs over the characters of the duplicate's text.  With the primary's
\* text "[]" both characters of "[]" are found in it and nothing changes;
\* with the primary's NULL they are appended to a Python list, which the
\* primary then holds.
MergedAliases(primary_field, duplicate_field) ==
  IF duplicate_field.common_aliases = "None"
    THEN primary_field.common_aliases
  ELSE IF primary_field.common_aliases = "None" THEN "list"
  ELSE primary_field.common_aliases

\* A merge that leaves the primary's usage_count as it was
PrimaryUsageOnly(primary_field, duplicate_field) == primary_field.usage_count

\* Lines 345-346: primary_field.usage_count += duplicate_field.usage_count
MergedUsage(primary_field, duplicate_field) ==
  primary_field.usage_count + duplicate_field.usage_count

\* The primary object after lines 337-346
MergedPrimary(primary_field, duplicate_field) ==
  [primary_field EXCEPT
     !.common_aliases = MergedAliases(primary_field, duplicate_field),
     !.usage_count = MergedUsage(primary_field, duplicate_field)]

\* ApplicationType.query.all() and the Python part of the merge.  The
\* AttributeError leaves merge_fields, which handles no exception.
MergeRewrite(p) ==
  /\ req[p].pc = "merge_read"
  /\ IF RewriteRaises(Visible(p).apps)
       THEN req' = Ended(p, "AttributeError")
       ELSE req' = [req EXCEPT ![p] =
                      [req[p] EXCEPT
                         !.pc = "merge_commit",
                         !.merged = MergedPrimary(req[p].primary,
                                                  req[p].duplicate)]]
  /\ UNCHANGED <<catalog, apps, lock, tx, started, replay, probe>>

\* The rows after the flush of the merge: the UPDATE of the primary_field
\* object and the DELETE of the duplicate
MergedCatalog(cat, primary_field, duplicate_field) ==
  {IF e.id = primary_field.id
     THEN [e EXCEPT !.usage_count = primary_field.usage_count,
                    !.common_aliases = primary_field.common_aliases]
     ELSE e : e \in {x \in cat : x.id # duplicate_field.id}}

\* Lines 349-350: db_session.delete(duplicate_field); db_session.commit().
\* The UPDATE of a primary that is gone raises StaleDataError; a list bound
\* to the Text column common_aliases is refused by the driver.
MergeCommit(p) ==
  /\ req[p].pc = "merge_commit"
  /\ CanWrite(p)
  /\ IF req[p].merged.id \notin Ids(catalog)
       THEN /\ req' = Ended(p, "StaleDataError")
            /\ Rollback(p)
     ELSE IF req[p].merged.common_aliases = "list"
       THEN /\ req' = Ended(p, "StatementError")
            /\ Rollback(p)
     ELSE /\ req' = Ended(p, "ok")
          /\ catalog' = MergedCatalog(catalog, req[p].merged, req[p].duplicate)
          /\ lock' = 0
          /\ tx' = NoTx
          /\ UNCHANGED apps
  /\ UNCHANGED <<started, replay, probe>>

(***************************************************************************)
(* Catalog management: create_field_library_item (app.py:2570-2610) and    *)
(* create_new_field (app.py:3213-3254).                                    *)
(***************************************************************************)
ItemEntry(data) ==
  [NoEntry EXCEPT
     !.field_key = data.field_key,
     !.canonical_name = data.canonical_name,
     !.field_type = data.field_type,
     !.category = data.category,
     !.usage_count = IF data.endpoint = 1 THEN data.usage_count ELSE 0,
     !.common_aliases = IF data.endpoint = 1 THEN "[]" ELSE "None"]

\* The existence check; an existing key is answered with 400 / 409
StartCreateItem(p, data) ==
  /\ CanStart(p)
  /\ req' = [req EXCEPT ![p] =
               IF data.field_key \in Keys(catalog)
                 THEN [IdleReq EXCEPT !.op = "create_item", !.pc = "done",
                                      !.result = "exists"]
                 ELSE [IdleReq EXCEPT !.op = "create_item",
                                      !.pc = "item_insert",
                                      !.pending = ItemEntry(data),
                                      !.absent = {data.field_key}]]
  /\ started' = started + 1
  /\ UNCHANGED <<catalog, apps, lock, tx, replay, probe>>

\* db.session.add(field); db.session.commit()
InsertItem(p) ==
  /\ req[p].pc = "item_insert"
  /\ CanWrite(p)
  /\ IF UniqueViolation(catalog, req[p].pending.field_key)
       THEN /\ req' = Ended(p, "IntegrityError")
            /\ Rollback(p)
       ELSE /\ req' = [req EXCEPT ![p] =
                         [Ended(p, "ok")[p] EXCEPT
                            !.made = {req[p].pending.field_key}]]
            /\ catalog' = catalog \cup {[req[p].pending EXCEPT
                                           !.id = NextId(catalog)]}
            /\ UNCHANGED <<apps, lock, tx>>
  /\ UNCHANGED <<started, replay, probe>>

(***************************************************************************)
(* FieldLibrarySync.get_or_create_field behind create_field_from_form      *)
(* (field_library_sync.py:65-138, app.py:2891-2923).                       *)
(***************************************************************************)
\* generate_field_key: every run of characters outside [a-z0-9] becomes one
\* underscore
generate_field_key(field_name) ==
  CollapseRuns(StripChar(CollapseRuns(
                 [i \in 1..Len(field_name) |->
                    IF LowerChar(field_name[i]) \in LowerLetters \cup Digits
                      THEN LowerChar(field_name[i]) ELSE "_"], "_"), "_"), "_")

\* The first row, in rowid order, of the rows a filter selects
FirstOf(rows) ==
  IF rows = {} THEN NoEntry
  ELSE CHOOSE e \in rows : \A x \in rows : e.id <= x.id

find_existing_field(cat, field_name, field_type) ==
  IF \E e \in cat : e.canonical_name = field_name /\ e.field_type = field_type
    THEN FirstOf({e \in cat : /\ e.canonical_name = field_name
                              /\ e.field_type = field_type})
    ELSE FirstOf({e \in cat : /\ e.field_key = generate_field_key(field_name)
                              /\ e.field_type = field_type})

\* The columns of the FieldLibrary model (app.py:95-132) and the keyword
\* arguments get_or_create_field passes to its constructor (lines 120-133):
\* the declarative constructor raises TypeError for a keyword that is no
\* attribute of the model.
FieldLibraryColumns ==
  {"id", "field_key", "canonical_name", "description", "field_type",
   "data_type", "validation_rules", "conditional_rules", "placeholder",
   "help_text", "default_value", "options", "options_source",
   "options_lookup_table", "category", "subcategory", "tags", "usage_count",
   "first_used_by", "thentia_attribute_name", "salesforce_field_name",
   "common_aliases", "created_at", "updated_at"}

SyncConstructorArgs ==
  {"field_key", "canonical_name", "field_type", "category", "description",
   "options", "validation_rules", "is_pii", "is_hipaa", "obfuscation_rule",
   "created_by", "created_at"}

\* auto_detect_category (lines 33-63) for a name that holds one of the
\* personal keywords, "Other" for a name that holds no keyword of any list
personal_keywords ==
  << <<"n","a","m","e">>, <<"a","d","d","r","e","s","s">>,
     <<"e","m","a","i","l">>, <<"p","h","o","n","e">>,
     <<"c","o","n","t","a","c","t">>, <<"b","i","r","t","h">>,
     <<"s","s","n">>,
     <<"s","o","c","i","a","l"," ","s","e","c","u","r","i","t","y">> >>

professional_keywords ==
  << <<"l","i","c","e","n","s","e">>,
     <<"c","e","r","t","i","f","i","c","a","t","i","o","n">>,
     <<"c","r","e","d","e","n","t","i","a","l">>,
     <<"e","x","p","e","r","i","e","n","c","e">>,
     <<"e","m","p","l","o","y","e","r">>, <<"p","r","a","c","t","i","c","e">>,
     <<"s","p","e","c","i","a","l","t","y">> >>

education_keywords ==
  << <<"e","d","u","c","a","t","i","o","n">>, <<"s","c","h","o","o","l">>,
     <<"d","e","g","r","e","e">>, <<"c","o","l","l","e","g","e">>,
     <<"u","n","i","v","e","r","s","i","t","y">>,
     <<"t","r","a","i","n","i","n","g">>, <<"c","o","u","r","s","e">> >>

compliance_keywords ==
  << <<"c","r","i","m","i","n","a","l">>,
     <<"d","i","s","c","i","p","l","i","n","a","r","y">>,
     <<"c","o","n","v","i","c","t","i","o","n">>, <<"f","e","l","o","n","y">>,
     <<"b","a","c","k","g","r","o","u","n","d">>,
     <<"c","o","m","p","l","a","i","n","t">> >>

employment_keywords ==
  << <<"e","m","p","l","o","y","m","e","n","t">>,
     <<"e","m","p","l","o","y","e","r">>, <<"j","o","b">>,
     <<"w","o","r","k">>, <<"o","c","c","u","p","a","t","i","o","n">> >>

\* The first list with a keyword in the lowered name decides
auto_detect_category(field_name) ==
  IF KeywordHits(Lower(field_name), personal_keywords) > 0
    THEN "Personal Information"
  ELSE IF KeywordHits(Lower(field_name), professional_keywords) > 0
    THEN "Professional Background"
  ELSE IF KeywordHits(Lower(field_name), education_keywords) > 0
    THEN "Education"
  ELSE IF KeywordHits(Lower(field_name), compliance_keywords) > 0
    THEN "Compliance & Background Checks"
  ELSE IF KeywordHits(Lower(field_name), employment_keywords) > 0
    THEN "Employment Information"
  ELSE "Other"

\* The row get_or_create_field would insert (lines 110-133)
SyncEntryFor(field_data, cat) ==
  [NoEntry EXCEPT
     !.id = NextId(cat),
     !.field_key = generate_field_key(field_data.name),
     !.canonical_name = field_data.name,
     !.field_type = field_data.type,
     !.category = auto_detect_category(field_data.name)]

\* The request that get_or_create_field leaves behind
SyncRequest(result, made) ==
  [IdleReq EXCEPT !.op = "get_or_create_field", !.pc = "done",
                  !.result = result, !.made = made]

GetOrCreateField(p, field_data) ==
  /\ CanStart(p)
  /\ started' = started + 1
  /\ IF find_existing_field(catalog, field_data.name, field_data.type).id # 0
       THEN /\ req' = [req EXCEPT ![p] = SyncRequest("ok", {})]
            /\ UNCHANGED <<catalog, apps, lock, tx>>
     ELSE IF ~(SyncConstructorArgs \subseteq FieldLibraryColumns)
       THEN /\ req' = [req EXCEPT ![p] = SyncRequest("TypeError", {})]
            /\ UNCHANGED <<catalog, apps, lock, tx>>
     ELSE IF UniqueViolation(catalog, generate_field_key(field_data.name))
       THEN /\ req' = [req EXCEPT ![p] = SyncRequest("IntegrityError", {})]
            /\ UNCHANGED <<catalog, apps, lock, tx>>
     ELSE /\ CanWrite(p)
          /\ req' = [req EXCEPT ![p] =
                       SyncRequest("ok", {generate_field_key(field_data.name)})]
          /\ catalog' = catalog \cup {SyncEntryFor(field_data, catalog)}
          /\ UNCHANGED <<apps, lock, tx>>
  /\ UNCHANGED <<replay, probe>>

(***************************************************************************)
(* import_application_types (app.py:2358-2393): application types without  *)
(* form_fields_v2.                                                         *)
(***************************************************************************)
ImportApplicationTypes(p) ==
  /\ CanStart(p)
  /\ CanWrite(p)
  /\ started' = started + 1
  /\ req' = [req EXCEPT ![p] =
               [IdleReq EXCEPT !.op = "import_application_types",
                               !.pc = "done", !.result = "ok"]]
  /\ apps' = Append(apps, [has_v2 |-> FALSE, refs |-> <<>>])
  /\ UNCHANGED <<catalog, lock, tx, replay, probe>>

(***************************************************************************)
(* The database is locked: a session that must write while another holds   *)
(* the write lock waits, and fails with OperationalError at the timeout.   *)
(***************************************************************************)
WantsWrite(p) ==
  \/ req[p].pc \in {"insert", "commit", "merge_commit", "item_insert"}
  \/ req[p].pc = "lookup" /\ NeedsFlush(p)
  \/ req[p].pc \in {"csv_matched", "csv_new"} /\ req[p].dirty # {}

\* The exception handlers of the requests roll back; merge_fields has none,
\* and its session holds no lock while it waits
DatabaseLocked(p) ==
  /\ WantsWrite(p)
  /\ ~CanWrite(p)
  /\ req' = Ended(p, "OperationalError")
  /\ UNCHANGED <<catalog, apps, lock, tx, started, replay, probe>>

(***************************************************************************)
(* The specification: NumProcs threads serve up to MaxRequests requests.   *)
(***************************************************************************)
Init ==
  /\ catalog \in InitialCatalogs
  /\ apps = <<>>
  /\ lock = 0
  /\ tx = NoTx
  /\ req = [p \in Procs |-> IdleReq]
  /\ started = 0
  /\ replay = NoReplay
  /\ probe = NoProbe

Next ==
  \E p \in Procs :
    \/ \E fields \in ListsOf(Descriptors), target \in 0..Len(apps) :
         StartApplicationType(p, fields, target)
    \/ LookupField(p)
    \/ InsertField(p)
    \/ \E fields \in ListsOf(CsvRows) : StartImportCsv(p, fields)
    \/ CsvMatchRow(p)
    \/ CsvMatchedField(p)
    \/ CsvNewField(p)
    \/ CommitApplicationType(p)
    \/ \E a \in catalog, b \in catalog : StartMerge(p, a, b)
    \/ MergeRewrite(p)
    \/ MergeCommit(p)
    \/ \E data \in Items : StartCreateItem(p, data)
    \/ InsertItem(p)
    \/ \E field_data \in Descriptors : GetOrCreateField(p, field_data)
    \/ ImportApplicationTypes(p)
    \/ DatabaseLocked(p)

Spec == Init /\ [][Next]_vars

(***************************************************************************)
(* Replay runs: one client sends the same import (POST                     *)
(* /api/application-types or POST /api/application-types/import-csv) again *)
(* and again, each time after the answer to the time before.               *)
(***************************************************************************)
ReplayInputs ==
  {[op |-> "create_application_type", fields |-> f, before |-> {}] :
     f \in ListsOf(Descriptors)}
    \cup {[op |-> "import_csv", fields |-> f, before |-> {}] :
            f \in ListsOf(CsvRows)}

InitReplay ==
  /\ catalog \in InitialCatalogs
  /\ apps = <<>>
  /\ lock = 0
  /\ tx = NoTx
  /\ req = [p \in Procs |-> IdleReq]
  /\ started = 0
  /\ replay \in ReplayInputs
  /\ probe = NoProbe

\* The next pass begins; the pass before, if any, has succeeded
StartReplay(p) ==
  /\ CanStart(p)
  /\ started > 0 => req[p].result = "ok"
  /\ req' = [req EXCEPT ![p] =
               IF replay.op = "import_csv"
                 THEN ImportCsvRequest(replay.fields)
                 ELSE ApplicationTypeRequest(replay.fields, 0)]
  /\ started' = started + 1
  /\ replay' = [replay EXCEPT !.before = catalog]
  /\ UNCHANGED <<catalog, apps, lock, tx, probe>>

NextReplay ==
  \/ StartReplay(1)
  \/ LookupField(1)
  \/ InsertField(1)
  \/ CsvMatchRow(1)
  \/ CsvMatchedField(1)
  \/ CsvNewField(1)
  \/ CommitApplicationType(1)

SpecReplay == InitReplay /\ [][NextReplay]_vars

(***************************************************************************)
(* Matcher runs: one call of the matchers for a name and a type on a       *)
(* catalog.  purpose is what PurposeMatcher.find_match returns (the        *)
(* matcher of the import handlers); exact and alias are the ids of the     *)
(* entries that stages 1 and 2 of FieldMatcher.find_match find (0 for      *)
(* none); field is what FieldMatcher.find_match returns; linked is the id  *)
(* of the entry create_application_type reuses for the field (0 when it    *)
(* creates one); key is what suggest_field_key returns and valid what      *)
(* FieldValidator.normalize_field_key returns.                             *)
(***************************************************************************)
Email == <<"E","m","a","i","l">>
email == <<"e","m","a","i","l">>
Email_Address == <<"E","m","a","i","l"," ","A","d","d","r","e","s","s">>
email_address == <<"e","m","a","i","l","_","a","d","d","r","e","s","s">>
FIRST_NAME == <<"F","I","R","S","T","_","N","A","M","E">>
First_Names == <<"F","i","r","s","t"," ","N","a","m","e","s">>
Forename == <<"F","o","r","e","n","a","m","e">>
Date == <<"D","a","t","e">>
date == <<"d","a","t","e">>
Punctuation == <<"#","#","#">>

MatchNames ==
  {First_Name, Given_Name, Email, first_name, FIRST_NAME, First_Names,
   Forename, Date, Punctuation}

MatchTypes == {"text", "email", "date"}

\* Entries as create_field_library_item and import_csv leave them
MatchEntries ==
  { SeedFirstName,
    SeedGivenName,
    [id |-> 2, field_key |-> given_name, canonical_name |-> Given_Name,
     field_type |-> "text", category |-> "Other", usage_count |-> 1,
     common_aliases |-> "None"],
    [id |-> 3, field_key |-> email_address, canonical_name |-> Email_Address,
     field_type |-> "email", category |-> "Contact Information",
     usage_count |-> 1, common_aliases |-> "[]"],
    [id |-> 4, field_key |-> email, canonical_name |-> Email,
     field_type |-> "email", category |-> "Other", usage_count |-> 1,
     common_aliases |-> "None"],
    [id |-> 4, field_key |-> email, canonical_name |-> Email,
     field_type |-> "email", category |-> "Contact Information",
     usage_count |-> 1, common_aliases |-> "[]"],
    [id |-> 5, field_key |-> date, canonical_name |-> Date,
     field_type |-> "date", category |-> "Personal Information",
     usage_count |-> 1, common_aliases |-> "[]"] }

\* The catalogs of these entries: no two rows of a table share a field_key
MatchCatalogs ==
  {c \in SUBSET MatchEntries :
     \A e1, e2 \in c : e1.field_key = e2.field_key => e1 = e2}

InitMatch ==
  /\ catalog \in MatchCatalogs
  /\ apps = <<>>
  /\ lock = 0
  /\ tx = NoTx
  /\ req = [p \in Procs |-> IdleReq]
  /\ started = 0
  /\ replay = NoReplay
  /\ probe \in {[NoProbe EXCEPT !.pc = "call", !.field_name = n,
                                !.field_type = t] :
                  n \in MatchNames, t \in MatchTypes}

\* The entry create_application_type reuses for a field (lines 1931-1955),
\* given the purpose detect_purpose returns: NoEntry when it creates one
ImportResolution(field_name, field_type, cat, purpose) ==
  FoundFor(MatchOfPurpose(purpose, field_name, field_type, Rows(cat)),
           KeyOfPurpose(purpose, field_name), cat)

Match ==
  /\ probe.pc = "call"
  /\ probe' = [probe EXCEPT
                 !.pc = "returned",
                 !.purpose = PurposeMatcher_find_match(probe.field_name,
                                                       probe.field_type,
                                                       Rows(catalog)),
                 !.exact = ExactStage(normalize_field_key(probe.field_name),
                                      catalog).id,
                 !.alias = AliasStage(normalize_field_key(probe.field_name),
                                      catalog, FIELD_ALIASES).id,
                 !.field = FieldMatcher_find_match(probe.field_name, catalog),
                 !.linked = ImportResolution(
                              probe.field_name, probe.field_type, catalog,
                              detect_purpose(probe.field_name,
                                             probe.field_type)).id,
                 !.key = suggest_field_key(probe.field_name, probe.field_type),
                 !.valid = FieldValidator_normalize_field_key(
                             probe.field_name)]
  /\ UNCHANGED <<catalog, apps, lock, tx, req, started, replay>>

SpecMatch == InitMatch /\ [][Match]_vars

(***************************************************************************)
(* Purpose runs: one call of PurposeMatcher.normalize_field_name,          *)
(* detect_purpose and suggest_field_key for a name and a type.  The names  *)
(* are a core name with leading and trailing filler tokens around it.      *)
(* field_type "" is the call without a type (None).                        *)
(***************************************************************************)
MaxFillers == 2

\* "First Name", "Given Name", "Firstname", "Notes"
CoreNames ==
  {First_Name, Given_Name, <<"F","i","r","s","t","n","a","m","e">>,
   <<"N","o","t","e","s">>}

PurposeTypes == {"", "text", "email"}

\* The tokens the names carry before the core name are the prefixes; those
\* after it are the suffixes, and "(required)" as the forms print it
TrailingFillers == suffixes \o << <<"(","r","e","q","u","i","r","e","d",")">> >>

\* The words of a list, each followed by a space
RECURSIVE WordsThenSpace(_)
WordsThenSpace(words) ==
  IF words = <<>> THEN <<>>
  ELSE Head(words) \o <<" ">> \o WordsThenSpace(Tail(words))

\* The words of a list, each preceded by a space
RECURSIVE SpaceThenWords(_)
SpaceThenWords(words) ==
  IF words = <<>> THEN <<>>
  ELSE <<" ">> \o Head(words) \o SpaceThenWords(Tail(words))

\* The lists of at most MaxFillers tokens of a list of tokens
FillerLists(tokens) ==
  UNION {{[i \in 1..n |-> tokens[f[i]]] : f \in [1..n -> DOMAIN tokens]} :
           n \in 0..MaxFillers}

PurposeCalls ==
  {[pc |-> "call",
    field_name |-> WordsThenSpace(lead) \o core \o SpaceThenWords(trail),
    core |-> core, field_type |-> t,
    normalized |-> <<>>, detected |-> 0, key |-> <<>>] :
     lead \in FillerLists(prefixes), core \in CoreNames,
     trail \in FillerLists(TrailingFillers), t \in PurposeTypes}

InitPurpose ==
  /\ catalog = {}
  /\ apps = <<>>
  /\ lock = 0
  /\ tx = NoTx
  /\ req = [p \in Procs |-> IdleReq]
  /\ started = 0
  /\ replay = NoReplay
  /\ probe \in PurposeCalls

Detect ==
  /\ probe.pc = "call"
  /\ probe' = [probe EXCEPT
                 !.pc = "returned",
                 !.normalized = normalize_field_name(probe.field_name),
                 !.detected = detect_purpose(probe.field_name,
                                             probe.field_type),
                 !.key = suggest_field_key(probe.field_name,
                                           probe.field_type)]
  /\ UNCHANGED <<catalog, apps, lock, tx, req, started, replay>>

SpecPurpose == InitPurpose /\ [][Detect]_vars

(***************************************************************************)
(* Normalization runs: FieldMatcher.normalize_field_key and                *)
(* FieldValidator.normalize_field_key on a string, and again on what they  *)
(* return.  The strings are all those of at most MaxLen characters of an   *)
(* alphabet with a letter of each case, a digit, the separators and a      *)
(* character that is dropped.                                              *)
(***************************************************************************)
MaxLen == 4

NameCharacters == {"a", "B", "1", "_", " ", "-", "#"}

Strings == UNION {[1..n -> NameCharacters] : n \in 0..MaxLen}

\* normalize_field_key applied to what normalize_field_key returned; a
\* call that raised has returned nothing to apply it to
ValidatedAgain(key) ==
  IF key = ValueError THEN ValueError
  ELSE FieldValidator_normalize_field_key(key)

InitNormalize ==
  /\ catalog = {}
  /\ apps = <<>>
  /\ lock = 0
  /\ tx = NoTx
  /\ req = [p \in Procs |-> IdleReq]
  /\ started = 0
  /\ replay = NoReplay
  /\ probe \in {[pc |-> "call", field_name |-> s, key |-> <<>>,
                  again |-> <<>>, valid |-> <<>>, valid_again |-> <<>>] :
                  s \in Strings}

Normalize ==
  /\ probe.pc = "call"
  /\ probe' = [probe EXCEPT
                 !.pc = "returned",
                 !.key = normalize_field_key(probe.field_name),
                 !.again = normalize_field_key(
                             normalize_field_key(probe.field_name)),
                 !.valid = FieldValidator_normalize_field_key(probe.field_name),
                 !.valid_again = ValidatedAgain(
                                   FieldValidator_normalize_field_key(
                                     probe.field_name))]
  /\ UNCHANGED <<catalog, apps, lock, tx, req, started, replay>>

SpecNormalize == InitNormalize /\ [][Normalize]_vars

(***************************************************************************)
(* FieldLibraryImporter (field_library_import.py), called by               *)
(* execute_field_library_import (app.py:2732-2776).  Each call runs in one *)
(* session and commits at its end.  The columns options and updated_at,    *)
(* which the importer also writes, are not columns of the model.           *)
(***************************************************************************)
UpperLetters ==
  {"A","B","C","D","E","F","G","H","I","J","K","L","M",
   "N","O","P","Q","R","S","T","U","V","W","X","Y","Z"}

\* FieldLibraryImporter._normalize_field_key: every character that is no
\* letter, digit or blank is removed, runs of blanks become an underscore
Importer_normalize_field_key(name) ==
  Lower(MapChars(CollapseRuns(StripChar(
                   KeepChars(name, LowerLetters \cup UpperLetters \cup Digits
                                     \cup {" "}), " "), " "),
                 {" "}, "_"))

\* row.get('field_key') or self._normalize_field_key(row.get('canonical_name'))
DefinitionKey(row) ==
  IF row.field_key # <<>> THEN row.field_key
  ELSE Importer_normalize_field_key(row.canonical_name)

\* Update existing field (lines 268-276)
DefinitionUpdated(field, row) ==
  [field EXCEPT !.canonical_name = row.canonical_name,
                !.field_type = row.field_type,
                !.category = row.category]

\* Create new field (lines 277-291)
DefinitionCreated(cat, row) ==
  [NoEntry EXCEPT !.id = NextId(cat),
                  !.field_key = DefinitionKey(row),
                  !.canonical_name = row.canonical_name,
                  !.field_type = row.field_type,
                  !.category = row.category]

\* The loop over the rows of the file (lines 246-294); the query of a row
\* sees what the rows before it have added
RECURSIVE DefinitionsImported(_, _)
DefinitionsImported(cat, rows) ==
  IF rows = <<>> THEN cat
  ELSE IF DefinitionKey(Head(rows)) = <<>>
    THEN DefinitionsImported(cat, Tail(rows))
  ELSE IF DefinitionKey(Head(rows)) \in Keys(cat)
    THEN DefinitionsImported(
           {IF e.field_key = DefinitionKey(Head(rows))
              THEN DefinitionUpdated(e, Head(rows)) ELSE e : e \in cat},
           Tail(rows))
  ELSE DefinitionsImported(cat \cup {DefinitionCreated(cat, Head(rows))},
                           Tail(rows))

\* The request that a call of the importer leaves behind
ImporterRequest(op) ==
  [IdleReq EXCEPT !.op = op, !.pc = "done", !.result = "ok"]

\* import_field_definitions
ImportFieldDefinitions(p, rows) ==
  /\ CanStart(p)
  /\ CanWrite(p)
  /\ lock = 0
  /\ catalog' = DefinitionsImported(catalog, rows)
  /\ req' = [req EXCEPT ![p] = ImporterRequest("import_field_definitions")]
  /\ started' = started + 1
  /\ UNCHANGED <<apps, lock, tx, replay, probe>>

\* str(counter)
RECURSIVE Decimal(_)
Decimal(n) ==
  IF n < 10 THEN <<(<<"0","1","2","3","4","5","6","7","8","9">>)[n + 1]>>
  ELSE Decimal(n \div 10) \o Decimal(n % 10)

\* while FieldLibrary.query.filter_by(field_key=f"{base_key}_{counter}")
\* .first(): counter += 1 (lines 150-154)
RECURSIVE FreeCounter(_, _, _)
FreeCounter(cat, base_key, counter) ==
  IF (base_key \o <<"_">> \o Decimal(counter)) \in Keys(cat)
    THEN FreeCounter(cat, base_key, counter + 1)
    ELSE counter

\* merge_strategy 'create_new' for an existing field (lines 148-171)
AlternativeVersion(cat, field, counter) ==
  [NoEntry EXCEPT
     !.id = NextId(cat),
     !.field_key = field.field_key \o <<"_">> \o Decimal(counter),
     !.canonical_name = field.canonical_name \o <<" ","(","v">>
                          \o Decimal(counter) \o <<")">>,
     !.field_type = "select",
     !.category = IF field.category = "" THEN "Reference Data"
                  ELSE field.category]

\* Create new field (lines 204-221)
ReferenceField(cat, header) ==
  [NoEntry EXCEPT !.id = NextId(cat),
                  !.field_key = Importer_normalize_field_key(header),
                  !.canonical_name = header,
                  !.field_type = "select",
                  !.category = "Reference Data"]

\* import_reference_data for a file with the header and some options, called
\* without field_key and field_name.  The strategies 'merge' and 'replace'
\* write the options of the existing field only.
ReferenceImported(cat, header, merge_strategy) ==
  IF Importer_normalize_field_key(header) \notin Keys(cat)
    THEN cat \cup {ReferenceField(cat, header)}
  ELSE IF merge_strategy = "create_new"
    THEN cat \cup {AlternativeVersion(
                     cat, ByKey(cat, Importer_normalize_field_key(header)),
                     FreeCounter(cat, Importer_normalize_field_key(header), 2))}
  ELSE cat

ImportReferenceData(p, header, merge_strategy) ==
  /\ CanStart(p)
  /\ CanWrite(p)
  /\ lock = 0
  /\ catalog' = ReferenceImported(catalog, header, merge_strategy)
  /\ req' = [req EXCEPT ![p] = ImporterRequest("import_reference_data")]
  /\ started' = started + 1
  /\ UNCHANGED <<apps, lock, tx, replay, probe>>

(***************************************************************************)
(* Catalog runs: the requests that write the catalog, one after the other  *)
(* (one client): application-type imports, the importer's two imports and  *)
(* merges.                                                                 *)
(***************************************************************************)
Job == <<"J","o","b">>
job == <<"j","o","b">>

\* Descriptors of create_application_type: a field type of the form builder
\* among them, and an element of the list that is a JSON string
CatalogDescriptors ==
  { [name |-> First_Name, type |-> "text"],
    [name |-> Job, type |-> "signature"],
    [json |-> "string"] }

\* Rows of a field-definitions file: field_key, canonical_name, field_type,
\* category
DefinitionRows ==
  { [field_key |-> first_name, canonical_name |-> First_Name,
     field_type |-> "date", category |-> "General"],
    [field_key |-> <<>>, canonical_name |-> Given_Name,
     field_type |-> "text", category |-> "Personal Information"],
    [field_key |-> First_Name, canonical_name |-> First_Name,
     field_type |-> "text", category |-> "Personal Information"] }

ReferenceHeaders == {Job, First_Name}

MergeStrategies == {"merge", "replace", "create_new"}

NextCatalog ==
  \/ \E fields \in ListsOf(CatalogDescriptors) :
       StartApplicationType(1, fields, 0)
  \/ LookupField(1)
  \/ DescriptorRaises(1)
  \/ InsertField(1)
  \/ CommitApplicationType(1)
  \/ \E rows \in ListsOf(DefinitionRows) : ImportFieldDefinitions(1, rows)
  \/ \E header \in ReferenceHeaders, merge_strategy \in MergeStrategies :
       ImportReferenceData(1, header, merge_strategy)
  \/ \E a \in catalog, b \in catalog : StartMerge(1, a, b)
  \/ MergeRewrite(1)
  \/ MergeCommit(1)

SpecCatalog == Init /\ [][NextCatalog]_vars

(***************************************************************************)
(* Validation runs: one call of FieldValidator.validate_ufl_field,          *)
(* FieldValidator.validate_application_field or                            *)
(* FieldValidator.merge_field_config.  The field data have each property   *)
(* present or absent, valid or not; the dicts of rules hold at most        *)
(* MaxRules rules and the overrides at most MaxOverrides items.            *)
(***************************************************************************)
MaxRules == 2

MaxOverrides == 2

\* A property of a dict that may be absent
Absent == {[has |-> FALSE]}

Present(values) == {[has |-> TRUE, value |-> v] : v \in values}

\* The dict that holds the chosen properties that are present
DictOf(chosen) ==
  [k \in {x \in DOMAIN chosen : chosen[x].has} |-> chosen[k].value]

\* The sequences of at most n items of a set, no key twice
ItemLists(items, n) ==
  {s \in UNION {[1..k -> items] : k \in 0..n} :
     \A i, j \in DOMAIN s : i # j => s[i].key # s[j].key}

RuleItems ==
  {[key |-> "foo", type |-> "int"], [key |-> "bar", type |-> "int"],
   [key |-> "min_length", type |-> "str"],
   [key |-> "min_value", type |-> "str"],
   [key |-> "required", type |-> "bool"]}

RuleDicts == {Rules(items) : items \in ItemLists(RuleItems, MaxRules)}

UflFieldData ==
  {DictOf([field_key |-> key, canonical_name |-> name, field_type |-> type,
           category |-> category, validation_rules |-> rules,
           options |-> options, common_aliases |-> aliases]) :
     key \in Absent \cup Present({<<>>, <<"#", "#", "#">>, First_Name}),
     name \in Absent \cup Present({First_Name}),
     type \in Absent \cup Present({"text", "tel"}),
     category \in Absent
                    \cup Present({<<"p", "e", "r", "s", "o", "n", "a", "l",
                                    " ", "i", "n", "f", "o">>}),
     rules \in Absent \cup Present({NotADict} \cup RuleDicts),
     options \in Absent \cup Present({"str"}),
     aliases \in Absent \cup Present({"str"})}

OverrideItems ==
  {[key |-> "field_key", value |-> Given_Name],
   [key |-> "field_type", value |-> "date"],
   [key |-> "id", value |-> "7"],
   [key |-> "display_name", value |-> Given_Name],
   [key |-> "category", value |-> "Other"]}
    \cup {[key |-> "validation", value |-> rules] :
            rules \in {Rules(<<[key |-> "required", type |-> "bool"]>>),
                       Rules(<<[key |-> "foo", type |-> "int"],
                               [key |-> "bar", type |-> "int"]>>),
                       Rules(<<[key |-> "min_value", type |-> "str"]>>)}}

OverrideDicts == ItemLists(OverrideItems, MaxOverrides)

CustomFields ==
  {<<>>,
   DictOf([field_key |-> [has |-> TRUE, value |-> First_Name],
           canonical_name |-> [has |-> TRUE, value |-> First_Name],
           field_type |-> [has |-> TRUE, value |-> "text"]]),
   DictOf([field_key |-> [has |-> TRUE, value |-> <<"#", "#", "#">>],
           canonical_name |-> [has |-> FALSE],
           field_type |-> [has |-> TRUE, value |-> "tel"]])}

\* A row of field_library with the columns merge_field_config reads
WithColumns(entry, validation_rules) ==
  [id |-> entry.id, field_key |-> entry.field_key,
   canonical_name |-> entry.canonical_name, field_type |-> entry.field_type,
   category |-> entry.category, usage_count |-> entry.usage_count,
   common_aliases |-> entry.common_aliases,
   validation_rules |-> validation_rules, options |-> "None",
   help_text |-> "None", placeholder |-> "None"]

UflFields ==
  {WithColumns(SeedFirstName, "None"), WithColumns(SeedFirstName, "{}")}

ApplicationFieldData ==
  {DictOf([field_library_id |-> id, overrides |-> overrides,
           custom_field |-> custom]) :
     id \in Absent \cup Present({0, 1}),
     overrides \in Absent \cup Present(OverrideDicts),
     custom \in Absent \cup Present(CustomFields)}

NoCall ==
  [pc |-> "call", op |-> "", field_data |-> <<>>,
   ufl_field |-> WithColumns(NoEntry, "None"), overrides |-> <<>>,
   result |-> Returned(<<>>)]

ValidationCalls ==
  {[NoCall EXCEPT !.op = "validate_ufl_field", !.field_data = field_data] :
     field_data \in UflFieldData}
    \cup {[NoCall EXCEPT !.op = "validate_application_field",
                          !.field_data = field_data,
                          !.ufl_field = ufl_field] :
            field_data \in ApplicationFieldData,
            ufl_field \in UflFields \cup {WithColumns(NoEntry, "None")}}
    \cup {[NoCall EXCEPT !.op = "merge_field_config",
                          !.ufl_field = ufl_field,
                          !.overrides = overrides] :
            ufl_field \in UflFields, overrides \in OverrideDicts}

InitValidate ==
  /\ catalog = {}
  /\ apps = <<>>
  /\ lock = 0
  /\ tx = NoTx
  /\ req = [p \in Procs |-> IdleReq]
  /\ started = 0
  /\ replay = NoReplay
  /\ probe \in ValidationCalls

ValidateUflField ==
  /\ probe.pc = "call"
  /\ probe.op = "validate_ufl_field"
  /\ probe' = [probe EXCEPT !.pc = "done",
                            !.result = validate_ufl_field(probe.field_data)]
  /\ UNCHANGED <<catalog, apps, lock, tx, req, started, replay>>

ValidateApplicationField ==
  /\ probe.pc = "call"
  /\ probe.op = "validate_application_field"
  /\ probe' = [probe EXCEPT !.pc = "done",
                            !.result = validate_application_field(
                                         probe.field_data, probe.ufl_field)]
  /\ UNCHANGED <<catalog, apps, lock, tx, req, started, replay>>

MergeFieldConfig ==
  /\ probe.pc = "call"
  /\ probe.op = "merge_field_config"
  /\ probe' = [probe EXCEPT !.pc = "done",
                            !.result = merge_field_config(probe.ufl_field,
                                                          probe.overrides)]
  /\ UNCHANGED <<catalog, apps, lock, tx, req, started, replay>>

NextValidate ==
  ValidateUflField \/ ValidateApplicationField \/ MergeFieldConfig

SpecValidate == InitValidate /\ [][NextValidate]_vars

(***************************************************************************)
(* Deduplication runs: one call of find_duplicates on a catalog.  The      *)
(* catalogs hold at most MaxEntries entries, in every order of their ids;  *)
(* the entries have labels that are equal but for the case, labels one     *)
(* character apart and unlike labels, of two types.                        *)
(***************************************************************************)
MaxEntries == 3

DuplicateEntries ==
  {[NoEntry EXCEPT !.field_key = first_name, !.canonical_name = First_Name,
                   !.field_type = "text"],
   [NoEntry EXCEPT !.field_key = first_name \o <<"s">>,
                   !.canonical_name = First_Names, !.field_type = "text"],
   [NoEntry EXCEPT !.field_key = <<"f", "n">>,
                   !.canonical_name = Lower(First_Name),
                   !.field_type = "text"],
   [NoEntry EXCEPT !.field_key = given_name, !.canonical_name = Given_Name,
                   !.field_type = "text"],
   [NoEntry EXCEPT !.field_key = first_name \o <<"_", "2">>,
                   !.canonical_name = First_Name, !.field_type = "date"],
   [NoEntry EXCEPT !.field_key = <<"f", "n", "_", "2">>,
                   !.canonical_name = First_Names, !.field_type = "date"]}

\* The entries of a sequence with the ids of their places
Numbered(entries) ==
  {[entries[i] EXCEPT !.id = i] : i \in DOMAIN entries}

DuplicateCatalogs ==
  {Numbered(entries) : entries \in
     {s \in UNION {[1..n -> DuplicateEntries] : n \in 0..MaxEntries} :
        \A i, j \in DOMAIN s : i # j => s[i] # s[j]}}

InitDuplicates ==
  /\ catalog \in DuplicateCatalogs
  /\ apps = <<>>
  /\ lock = 0
  /\ tx = NoTx
  /\ req = [p \in Procs |-> IdleReq]
  /\ started = 0
  /\ replay = NoReplay
  /\ probe = [pc |-> "call", duplicates |-> <<>>]

FindDuplicates ==
  /\ probe.pc = "call"
  /\ probe' = [pc |-> "done", duplicates |-> find_duplicates(Rows(catalog))]
  /\ UNCHANGED <<catalog, apps, lock, tx, req, started, replay>>

SpecDuplicates == InitDuplicates /\ [][FindDuplicates]_vars

(***************************************************************************)
(* Suggestion runs: one call of PurposeMatcher.suggest_field_key and       *)
(* suggest_category for a name and a type, as the import handlers call     *)
(* them for a field that matched no entry.  The names have the keywords of *)
(* a purpose or none; field_type "" is the call without a type.            *)
(***************************************************************************)
SuggestNames ==
  {First_Name, <<"N", "o", "t", "e", "s">>, <<"#", "#", "#">>,
   <<"A", "p", "p", "l", "i", "c", "a", "n", "t", " ", "N", "o", "t", "e",
     "s">>,
   <<"N", "o", "t", "e", "s", " ", "(", "o", "p", "t", "i", "o", "n", "a",
     "l", ")">>,
   <<"C", "e", "l", "l">>}

SuggestTypes ==
  {"", "text", "email", "tel", "phone", "date", "checkbox", "radio", "file",
   "number"}

InitSuggest ==
  /\ catalog = {}
  /\ apps = <<>>
  /\ lock = 0
  /\ tx = NoTx
  /\ req = [p \in Procs |-> IdleReq]
  /\ started = 0
  /\ replay = NoReplay
  /\ probe \in {[pc |-> "call", field_name |-> name, field_type |-> type,
                  detected |-> 0, key |-> <<>>, category |-> ""] :
                  name \in SuggestNames, type \in SuggestTypes}

Suggest ==
  /\ probe.pc = "call"
  /\ probe' = [probe EXCEPT
                 !.pc = "done",
                 !.detected = detect_purpose(probe.field_name,
                                             probe.field_type),
                 !.key = suggest_field_key(probe.field_name,
                                           probe.field_type),
                 !.category = suggest_category(probe.field_name,
                                               probe.field_type)]
  /\ UNCHANGED <<catalog, apps, lock, tx, req, started, replay>>

SpecSuggest == InitSuggest /\ [][Suggest]_vars

(***************************************************************************)
(* Normalizer runs: the five key normalizers of the repository on one      *)
(* string, the strings being those of the normalization runs.              *)
(***************************************************************************)
InitNormalizers ==
  /\ catalog = {}
  /\ apps = <<>>
  /\ lock = 0
  /\ tx = NoTx
  /\ req = [p \in Procs |-> IdleReq]
  /\ started = 0
  /\ replay = NoReplay
  /\ probe \in {[pc |-> "call", field_name |-> s, matcher |-> <<>>,
                  validator |-> <<>>, smart |-> <<>>, sync |-> <<>>,
                  importer |-> <<>>] : s \in Strings}

NormalizeEverywhere ==
  /\ probe.pc = "call"
  /\ probe' = [probe EXCEPT
                 !.pc = "done",
                 !.matcher = normalize_field_key(probe.field_name),
                 !.validator =
                   FieldValidator_normalize_field_key(probe.field_name),
                 !.smart =
                   SmartFieldMatcher_normalize_field_key(probe.field_name),
                 !.sync = generate_field_key(probe.field_name),
                 !.importer = Importer_normalize_field_key(probe.field_name)]
  /\ UNCHANGED <<catalog, apps, lock, tx, req, started, replay>>

SpecNormalizers == InitNormalizers /\ [][NormalizeEverywhere]_vars

(***************************************************************************)
(* Properties.                                                             *)
(***************************************************************************)
\* The handlers that import a form: they match each field to the catalog or
\* create an entry for it
ImportOps ==
  {"create_application_type", "update_application_type", "import_csv"}

\* The type-variant key import_csv makes for a textarea field first_name
first_name_textarea == first_name \o <<"_">> \o TypeText("textarea")

\* The ids of every reference the committed application types hold
ReferencedIds ==
  UNION {{apps[k].refs[i] : i \in DOMAIN apps[k].refs} : k \in DOMAIN apps}

\* The ids of the entries a request has resolved its fields to so far
ResolvedIds(r) ==
  {r.uses[i] : i \in DOMAIN r.uses}
    \cup {r.matched[i].field_library_id : i \in DOMAIN r.matched}

\* The number of times a request has reused the entry id
Reuses(r, id) == Cardinality({i \in DOMAIN r.uses : r.uses[i] = id})

\* A merge has been called and has not returned
MergeInProgress(p) ==
  req[p].op = "merge_fields" /\ req[p].pc \in {"merge_read", "merge_commit"}

\* The sum of the usage_count of the rows of a table
RECURSIVE TotalUsage(_)
TotalUsage(cat) ==
  IF cat = {} THEN 0
  ELSE (CHOOSE e \in cat : TRUE).usage_count
         + TotalUsage(cat \ {CHOOSE e \in cat : TRUE})

\* C1: no two catalog entries have the same field_key, whatever sequence of
\* catalog operations has run (matching, creation under plain and
\* type-variant keys, merging): in the committed table and in the image a
\* session has flushed and not committed.
FieldKeyIsUnique ==
  /\ \A e1, e2 \in catalog : e1.field_key = e2.field_key => e1 = e2
  /\ \A e1, e2 \in tx.catalog : e1.field_key = e2.field_key => e1 = e2

\* C1, its case: the catalog holds an entry under a type-variant key next to
\* the entry of the plain key, and an INSERT of a key the table holds has
\* been refused.
FieldKeyIsUniqueWitness ==
  /\ first_name \in Keys(catalog)
  /\ first_name_textarea \in Keys(catalog)
  /\ \E p \in Procs : req[p].result = "IntegrityError"

\* C2: an import that has looked a key up, found no entry and is about to
\* insert one does not create it once another request has committed an
\* entry with that key: its INSERT is refused (or finds the database
\* locked) and the request ends in an error without having created the key.
\* Of the requests that race for a key at most one creates it.
AtMostOneCreates ==
  [][\A p \in Procs :
       (/\ req[p].op \in ImportOps
        /\ req[p].pc = "insert"
        /\ req[p].pending.field_key \in req[p].absent
        /\ req[p].pending.field_key \in Keys(catalog)
        /\ req'[p] # req[p])
       => /\ req'[p].result \in {"IntegrityError", "OperationalError"}
          /\ req[p].pending.field_key \notin req'[p].made
          /\ catalog' = catalog]_vars

\* C2, its case: two imports have both found the key absent; one has
\* created it and succeeded, the other's INSERT has been refused.
AtMostOneCreatesWitness ==
  \E p, q \in Procs : \E k \in req[p].made :
    /\ p # q
    /\ req[p].op \in ImportOps /\ req[q].op \in ImportOps
    /\ req[p].result = "ok"
    /\ k \in req[p].absent
    /\ k \in req[q].absent
    /\ k \notin req[q].made
    /\ req[q].result = "IntegrityError"
    /\ Cardinality({e \in catalog : e.field_key = k}) = 1

\* C3: the refusal of an import's INSERT because the key exists is never
\* what the caller gets: no import ends with the IntegrityError.
ConflictIsNotSurfaced ==
  \A p \in Procs :
    req[p].op \in ImportOps => req[p].result # "IntegrityError"

\* C4: when imports run concurrently, the commit of an import leaves every
\* entry's usage_count at the committed value plus the number of times the
\* import has reused the entry: no increment of another import is lost.
NoIncrementIsLost ==
  [][\A p \in Procs :
       (/\ \A q \in Procs : req[q].op \in ImportOps \cup {"idle"}
        /\ req[p].pc = "commit"
        /\ req'[p].result = "ok")
       => \A e \in catalog :
            ById(catalog', e.id).usage_count
              = e.usage_count + Reuses(req[p], e.id)]_vars

\* C5: while a merge is in progress no request resolves a field to the
\* merge's duplicate entry.
MergeExcludesMatching ==
  [][\A p, q \in Procs :
       MergeInProgress(p) =>
         req[p].duplicate.id \notin ResolvedIds(req'[q]) \ ResolvedIds(req[q])
    ]_vars

\* C6: the step that makes the merge visible (the duplicate leaves the
\* committed catalog) leaves a state in which no committed application type
\* refers to the duplicate: a reader sees the state before the merge or the
\* state after it, with every reference on the primary.
MergeIsAtomicForReaders ==
  [][\A p \in Procs :
       (/\ MergeInProgress(p)
        /\ req[p].duplicate.id \in Ids(catalog)
        /\ req[p].duplicate.id \notin Ids(catalog'))
       => req[p].duplicate.id \notin ReferencedIds']_vars

\* C7: once a merge has completed, every reference of every application
\* type points to an entry of the catalog.
NoDanglingReferenceAfterMerge ==
  (\E p \in Procs : req[p].op = "merge_fields" /\ req[p].result = "ok")
    => ReferencedIds \subseteq Ids(catalog)

\* C8: the commit of a successful merge of duplicate B into primary A leaves
\* A's usage_count at the sum of the usage_count A and B had when the merge
\* was called, and every other entry as it was.
MergeSumsUsage ==
  [][\A p \in Procs :
       (req[p].pc = "merge_commit" /\ req'[p].result = "ok")
       => /\ ById(catalog', req[p].primary.id).usage_count
               = req[p].primary.usage_count + req[p].duplicate.usage_count
          /\ \A e \in catalog :
               e.id \notin {req[p].primary.id, req[p].duplicate.id}
                 => e \in catalog']_vars

\* C8, its case: a merge of two entries that both had been used has
\* succeeded; the duplicate is gone and the primary holds the sum.
MergeSumsUsageWitness ==
  \E p \in Procs :
    /\ req[p].op = "merge_fields"
    /\ req[p].result = "ok"
    /\ req[p].primary.usage_count > 0
    /\ req[p].duplicate.usage_count > 0
    /\ req[p].duplicate.id \notin Ids(catalog)
    /\ ById(catalog, req[p].primary.id).usage_count
         = req[p].primary.usage_count + req[p].duplicate.usage_count

\* C9: the second pass of an import succeeds, creates no entry and adds one
\* to the usage_count of the resolved entry for each descriptor of the list.
ReplayIsIdempotent ==
  (started >= 2 /\ req[1].pc = "done")
    => /\ req[1].result = "ok"
       /\ Cardinality(catalog) = Cardinality(replay.before)
       /\ TotalUsage(catalog)
            = TotalUsage(replay.before) + Len(replay.fields)

\* C10: the match stages run in the order exact, alias, purpose, fuzzy and
\* the first stage that matches decides: a call that returns a purpose
\* match has found no entry by the exact key and none by an alias.
StagesRunInOrder ==
  (probe.pc = "returned" /\ probe.purpose.match_type = "purpose_match")
    => probe.exact = 0 /\ probe.alias = 0

\* C11: whenever the normalized name of a descriptor equals the field_key
\* of a catalog entry, FieldMatcher.find_match returns that entry with
\* confidence 1.0 and match_type exact_key, and the import path of
\* create_application_type links the field to that entry.
ExactKeyDecides ==
  (probe.pc = "returned" /\ probe.exact # 0)
    => /\ probe.field = [matched |-> probe.exact,
                         confidence |-> [num |-> 1, den |-> 1],
                         match_type |-> "exact_key"]
       /\ probe.linked = probe.exact

\* The canonical keys of the alias table under which a key is filed, as the
\* canonical key itself or as one of its aliases
CanonicalKeysOf(field_key) ==
  {FIELD_ALIASES[i].canonical :
     i \in {j \in DOMAIN FIELD_ALIASES :
              \/ field_key = FIELD_ALIASES[j].canonical
              \/ InList(field_key, FIELD_ALIASES[j].aliases)}}

\* C12: for a name whose normalized key is a canonical key of the alias
\* table or one of its aliases, and which no entry has as its field_key,
\* FieldMatcher.find_match returns an alias_match exactly when the catalog
\* holds an entry under that canonical key; the alias_match has confidence
\* 0.95 and its entry is the entry of the canonical key.
AliasResolvesToCanonical ==
  (probe.pc = "returned" /\ probe.exact = 0)
    => \A c \in CanonicalKeysOf(normalize_field_key(probe.field_name)) :
         /\ probe.field.match_type = "alias_match" <=> c \in Keys(catalog)
         /\ probe.field.match_type = "alias_match"
              => /\ probe.field.confidence = [num |-> 95, den |-> 100]
                 /\ ById(catalog, probe.field.matched).field_key = c

\* The field_type of the entry id of the catalog; the descriptor's own type
\* when id is 0 (no entry)
TypeOfEntry(id) ==
  IF id = 0 THEN probe.field_type ELSE ById(catalog, id).field_type

\* C13: no stage of matching and no reuse in the import path resolves a
\* descriptor to an entry of another field_type: the entry that
\* FieldMatcher.find_match returns, the entry that PurposeMatcher.find_match
\* returns and the entry create_application_type links the field to all have
\* the descriptor's type.
NoMatchAcrossTypes ==
  probe.pc = "returned"
    => /\ TypeOfEntry(probe.field.matched) = probe.field_type
       /\ TypeOfEntry(probe.purpose.matched) = probe.field_type
       /\ TypeOfEntry(probe.linked) = probe.field_type

\* The characters of a field_key in the order of their code points
KeyCharacters ==
  <<"0","1","2","3","4","5","6","7","8","9","_",
    "a","b","c","d","e","f","g","h","i","j","k","l","m",
    "n","o","p","q","r","s","t","u","v","w","x","y","z">>

CodeRank(ch) == CHOOSE i \in DOMAIN KeyCharacters : KeyCharacters[i] = ch

\* a <= b in the lexicographic order of strings
RECURSIVE LexLeq(_, _)
LexLeq(a, b) ==
  IF a = <<>> THEN TRUE
  ELSE IF b = <<>> THEN FALSE
  ELSE IF Head(a) # Head(b) THEN CodeRank(Head(a)) < CodeRank(Head(b))
  ELSE LexLeq(Tail(a), Tail(b))

\* The tie-break policy: the higher usage_count, then the smaller field_key
Preferred(winner, other) ==
  \/ winner.usage_count > other.usage_count
  \/ /\ winner.usage_count = other.usage_count
     /\ LexLeq(winner.field_key, other.field_key)

\* The candidates of the purpose that score as the entry winner does
TiedWith(winner, purpose) ==
  {e \in catalog :
     /\ e.category = FIELD_PURPOSES[purpose].category
     /\ e.field_type = probe.field_type
     /\ CandidateScore(e, probe.field_name, FIELD_PURPOSES[purpose].keywords)
          = CandidateScore(winner, probe.field_name,
                           FIELD_PURPOSES[purpose].keywords)}

\* C14: when several candidates receive the best score, the entry that
\* PurposeMatcher.find_match returns is the one the tie-break policy
\* prefers to every other: higher usage_count, then smaller field_key.
TieBreakByUsageThenKey ==
  (probe.pc = "returned" /\ probe.purpose.match_type = "purpose_match")
    => \A e \in TiedWith(ById(catalog, probe.purpose.matched),
                         detect_purpose(probe.field_name, probe.field_type)) :
         Preferred(ById(catalog, probe.purpose.matched), e)

MatchTypeNames ==
  {"exact_key", "alias_match", "purpose_match", "fuzzy_match", "none"}

\* A result of FieldMatcher.find_match is well formed (confidence as the
\* quotient num/den)
WellFormedResult(r) ==
  /\ r.confidence.den > 0
  /\ 0 <= r.confidence.num /\ r.confidence.num <= r.confidence.den
  /\ r.match_type \in MatchTypeNames
  /\ r.matched = 0 <=> r.match_type = "none"
  /\ r.match_type = "none" => r.confidence.num = 0
  /\ r.match_type = "purpose_match"
       => AtLeast(r.confidence, [num |-> 5, den |-> 10])
  /\ r.match_type = "fuzzy_match"
       => AtLeast(r.confidence, [num |-> 8, den |-> 10])

\* C15: every result of a matcher is well formed: its confidence lies in
\* [0.0, 1.0]; its match_type is one of exact_key, alias_match,
\* purpose_match, fuzzy_match, none; it holds no entry exactly when the
\* match_type is none, and then the confidence is 0.0; a purpose_match has
\* confidence 0.5 at least and a fuzzy_match 0.8 at least.  (The result of
\* PurposeMatcher.find_match has its confidence in tenths.)
ResultIsWellFormed ==
  probe.pc = "returned"
    => /\ WellFormedResult(probe.field)
       /\ WellFormedResult([probe.purpose EXCEPT
                              !.confidence = [num |-> probe.purpose.confidence,
                                              den |-> 10]])

\* C15, its case: for one name FieldMatcher.find_match has accepted a fuzzy
\* match below 1.0 and PurposeMatcher.find_match has accepted a purpose
\* match.
ResultIsWellFormedWitness ==
  /\ probe.pc = "returned"
  /\ probe.field.match_type = "fuzzy_match"
  /\ probe.field.confidence.num < probe.field.confidence.den
  /\ probe.purpose.match_type = "purpose_match"

\* The keywords of purpose p (by their place in the list) that occur in s
KeywordsIn(s, p) ==
  {i \in DOMAIN FIELD_PURPOSES[p].keywords :
     Contains(s, FIELD_PURPOSES[p].keywords[i])}

\* The entries in the category of purpose p with the descriptor's type
InScope(p) ==
  {e \in catalog : /\ e.category = FIELD_PURPOSES[p].category
                   /\ e.field_type = probe.field_type}

\* 5 (0.5 in tenths) when the normalized key of e is the normalized input
KeyEquality(e) ==
  IF normalize_field_name(e.field_key) = normalize_field_name(probe.field_name)
    THEN 5 ELSE 0

\* The score of three components: 0.3 if a keyword occurs in the key, 0.2
\* if one occurs in the name, 0.5 for key equality (in tenths)
OncePerComponent(e, p) ==
  (IF KeywordsIn(e.field_key, p) # {} THEN 3 ELSE 0)
    + (IF KeywordsIn(normalize_field_name(e.canonical_name), p) # {}
         THEN 2 ELSE 0)
    + KeyEquality(e)

\* The score that counts every keyword: 0.3 for each keyword in the key,
\* 0.2 for each keyword in the normalized name, 0.5 for key equality
OncePerKeyword(e, p) ==
  3 * Cardinality(KeywordsIn(e.field_key, p))
    + 2 * Cardinality(KeywordsIn(normalize_field_name(e.canonical_name), p))
    + KeyEquality(e)

\* The result r of purpose matching for the detected purpose p (0: none),
\* scored with three components
ScopedThreeComponents(r, p) ==
  IF r.matched = 0
    THEN p = 0 \/ \A e \in InScope(p) : OncePerComponent(e, p) < 5
    ELSE /\ p # 0
         /\ ById(catalog, r.matched) \in InScope(p)
         /\ r.confidence = OncePerComponent(ById(catalog, r.matched), p)
         /\ r.confidence >= 5
         /\ \A e \in InScope(p) : OncePerComponent(e, p) <= r.confidence

\* C16 as the claim states it: the candidates of purpose matching are the
\* entries of the purpose's category with the descriptor's type; the score
\* of a candidate is the sum of at most three components (0.3, 0.2, 0.5);
\* the result is the best candidate with its score, accepted only from 0.5.
ScoreHasThreeComponents ==
  probe.pc = "returned"
    => ScopedThreeComponents(probe.purpose,
                             detect_purpose(probe.field_name,
                                            probe.field_type))

\* The result r of purpose matching for the detected purpose p, scored per
\* keyword and capped at 1.0
ScopedKeywordSum(r, p) ==
  IF r.matched = 0
    THEN p = 0 \/ \A e \in InScope(p) : OncePerKeyword(e, p) < 5
    ELSE /\ p # 0
         /\ ById(catalog, r.matched) \in InScope(p)
         /\ r.confidence = Min(OncePerKeyword(ById(catalog, r.matched), p), 10)
         /\ OncePerKeyword(ById(catalog, r.matched), p) >= 5
         /\ \A e \in InScope(p) :
              OncePerKeyword(e, p) <= OncePerKeyword(ById(catalog, r.matched), p)

\* C16, amended: the candidates are the entries of the purpose's category
\* with the descriptor's type; a candidate scores 0.3 for each keyword of
\* the purpose that occurs in its field_key, 0.2 for each that occurs in its
\* normalized canonical_name and 0.5 for key equality; the best candidate
\* is accepted only from a score of 0.5, with the score capped at 1.0 as
\* its confidence.
ScoreCountsEveryKeyword ==
  probe.pc = "returned"
    => ScopedKeywordSum(probe.purpose,
                        detect_purpose(probe.field_name, probe.field_type))

\* C16, its case: a purpose match whose entry has more than one keyword in
\* its key and a score above 1.0, returned with confidence 1.0.
ScoreCountsEveryKeywordWitness ==
  /\ probe.pc = "returned"
  /\ probe.purpose.match_type = "purpose_match"
  /\ probe.purpose.confidence = 10
  /\ OncePerKeyword(ById(catalog, probe.purpose.matched),
                    detect_purpose(probe.field_name, probe.field_type)) > 10
  /\ Cardinality(KeywordsIn(ById(catalog, probe.purpose.matched).field_key,
                            detect_purpose(probe.field_name,
                                           probe.field_type))) > 1

\* The keywords of purpose k (by their place in the list) that are a
\* substring of the normalized name n
SubstringKeywords(n, k) ==
  {i \in DOMAIN FIELD_PURPOSES[k].keywords :
     Contains(n, FIELD_PURPOSES[k].keywords[i])}

\* Those of them that are the whole name, or stand at its start before a
\* space, or at its end after a space
WholeWordKeywords(n, k) ==
  {i \in SubstringKeywords(n, k) :
     \/ n = FIELD_PURPOSES[k].keywords[i]
     \/ StartsWith(n, FIELD_PURPOSES[k].keywords[i] \o <<" ">>)
     \/ EndsWith(n, <<" ">> \o FIELD_PURPOSES[k].keywords[i])}

\* The score of purpose k for the normalized name n and the type t
ScoreOfPurpose(n, t, k) ==
  10 * Cardinality(SubstringKeywords(n, k))
    + 5 * Cardinality(WholeWordKeywords(n, k))
    + (IF t = FIELD_PURPOSES[k].field_type THEN 20 ELSE 0)

FillersAreIgnored ==
  probe.pc = "returned"
    => /\ probe.normalized = normalize_field_name(probe.core)
       /\ probe.detected = detect_purpose(probe.core, probe.field_type)
       /\ probe.key = suggest_field_key(probe.core, probe.field_type)

\* A key has only the characters a-z, 0-9 and _, and no underscore at its
\* start, at its end or after another underscore
IsNormalKey(key) ==
  /\ \A i \in DOMAIN key : key[i] \in LowerLetters \cup Digits \cup {"_"}
  /\ key # <<>> => key[1] # "_" /\ key[Len(key)] # "_"
  /\ \A i \in 1..(Len(key) - 1) : ~(key[i] = "_" /\ key[i + 1] = "_")

\* C19: normalize_field_key is idempotent and its keys are normal keys:
\* FieldMatcher.normalize_field_key for every string, and
\* FieldValidator.normalize_field_key for every string it returns a key for.
NormalizationIsIdempotent ==
  probe.pc = "returned"
    => /\ probe.again = probe.key
       /\ IsNormalKey(probe.key)
       /\ probe.valid # ValueError
            => /\ probe.valid_again = probe.valid
               /\ probe.valid = probe.key
               /\ IsNormalKey(probe.valid)

\* C19, its case: a name with an upper-case letter, a character that is
\* dropped and two separators in a row has been normalized by both
\* functions to a key that holds an underscore.
NormalizationIsIdempotentWitness ==
  /\ probe.pc = "returned"
  /\ \E i \in DOMAIN probe.field_name : probe.field_name[i] = "B"
  /\ \E i \in 1..(Len(probe.field_name) - 1) :
       /\ probe.field_name[i] \in {" ", "-", "_", "#"}
       /\ probe.field_name[i + 1] \in {" ", "-", "_"}
  /\ \E i \in DOMAIN probe.key : probe.key[i] = "_"
  /\ probe.valid = probe.key
  /\ probe.valid_again = probe.valid

\* C20: a name whose normalization is empty is an error at every entry
\* point: FieldValidator.normalize_field_key raises, suggest_field_key
\* returns no key in its place, and neither PurposeMatcher.find_match nor
\* the import path resolves the name to an entry of the catalog.
EmptyNameIsAnError ==
  (probe.pc = "returned" /\ normalize_field_key(probe.field_name) = <<>>)
    => /\ probe.valid = ValueError
       /\ probe.key = ValueError
       /\ probe.purpose.matched = 0
       /\ probe.linked = 0

\* C21: no step of any operation changes the field_key or the field_type of
\* an entry that is already in the catalog.
KeyAndTypeAreFrozen ==
  [][\A e \in catalog : \A f \in catalog' :
       f.id = e.id => f.field_key = e.field_key /\ f.field_type = e.field_type]_vars

\* C22: every entry of the catalog has a normalized field_key and a
\* field_type of the closed set text, email, tel, number, date, select,
\* radio, checkbox, textarea, file.
ClaimedFieldTypes ==
  {"text", "email", "tel", "number", "date", "select", "radio", "checkbox",
   "textarea", "file"}

EveryEntryIsValidated ==
  \A e \in catalog :
    IsNormalKey(e.field_key) /\ e.field_type \in ClaimedFieldTypes

\* C23: the category of every entry of the catalog is a member of the closed
\* category taxonomy.
CategoryIsInTaxonomy ==
  \A e \in catalog :
    \E i \in DOMAIN STANDARD_CATEGORIES : STANDARD_CATEGORIES[i] = e.category

\* C24: no step of any operation lowers the usage_count of an entry that
\* stays in the catalog.
UsageNeverDecreases ==
  [][\A e \in catalog : \A f \in catalog' :
       f.id = e.id => f.usage_count >= e.usage_count]_vars

\* The rules of a dict of rules that the schema does not accept
InvalidRules(rules) ==
  {rules.items[i].key : i \in
     {j \in DOMAIN rules.items :
        \/ rules.items[j].key \notin DOMAIN VALIDATION_SCHEMA
        \/ ~IsInstance(rules.items[j].type,
                       VALIDATION_SCHEMA[rules.items[j].key].classes)}}

\* The violations of a field: the properties that are missing or invalid
\* and the rules that are invalid
Violations(field_data) ==
  {k \in {"field_key"} : KeyErrors(field_data) # <<>>}
    \cup {k \in {"canonical_name"} : NameErrors(field_data) # <<>>}
    \cup {k \in {"field_type"} : TypeErrors(field_data) # <<>>}
    \cup {k \in {"options"} : OptionsErrors(field_data) # <<>>}
    \cup {k \in {"common_aliases"} : AliasesErrors(field_data) # <<>>}
    \cup (IF "validation_rules" \in DOMAIN field_data
          THEN InvalidRules(field_data["validation_rules"]) ELSE {})

\* C25: when a field has violations, validate_ufl_field raises a
\* ValidationError whose list has a message about every one of them.
EveryViolationIsCarried ==
  (probe.pc = "done" /\ probe.op = "validate_ufl_field"
     /\ Violations(probe.field_data) # {}) =>
    /\ probe.result.raised = "ValidationError"
    /\ \A v \in Violations(probe.field_data) :
         \E i \in DOMAIN probe.result.errors : probe.result.errors[i].about = v

\* C26: validate_application_field rejects every field that references a
\* catalog entry and whose overrides hold field_key, field_type or id, with
\* a message about each of them when it raises ValidationError; and the
\* configuration merge_field_config returns has the field_key and the
\* field_type of the catalog entry.
ImmutableOverrides(overrides) ==
  {IMMUTABLE_PROPERTIES[i] : i \in
     {j \in DOMAIN IMMUTABLE_PROPERTIES :
        HasKey(overrides, IMMUTABLE_PROPERTIES[j])}}

OverridesKeepImmutable ==
  /\ (probe.pc = "done" /\ probe.op = "validate_application_field"
        /\ Get(probe.field_data, "field_library_id", 0) # 0
        /\ probe.ufl_field.id # 0
        /\ ImmutableOverrides(Get(probe.field_data, "overrides", <<>>)) # {}) =>
       /\ probe.result.raised # ""
       /\ probe.result.raised = "ValidationError" =>
            \A prop \in ImmutableOverrides(probe.field_data["overrides"]) :
              \E i \in DOMAIN probe.result.errors :
                /\ probe.result.errors[i].about = prop
                /\ probe.result.errors[i].text
                     = "Cannot override immutable property"
  /\ (probe.pc = "done" /\ probe.op = "merge_field_config"
        /\ probe.result.raised = "") =>
       /\ probe.result.value["field_key"] = probe.ufl_field.field_key
       /\ probe.result.value["field_type"] = probe.ufl_field.field_type

\* merge_field_config has returned for overrides that hold field_key and
\* field_type and that rename the field
OverridesKeepImmutableWitness ==
  /\ probe.pc = "done"
  /\ probe.op = "merge_field_config"
  /\ probe.result.raised = ""
  /\ ImmutableOverrides(probe.overrides) = {"field_key", "field_type"}

\* The pair of entries e, f is in the list find_duplicates returned
Reported(e, f) ==
  \E i \in DOMAIN probe.duplicates :
    {probe.duplicates[i].field1, probe.duplicates[i].field2} = {e, f}

\* The similarity of the labels of two entries is at least 0.9, the label of
\* the entry with the smaller id being the first argument of the ratio
SimilarLabels(e, f) ==
  IF e.id < f.id
  THEN AtLeast(ratio(Lower(e.canonical_name), Lower(f.canonical_name)),
               [num |-> 9, den |-> 10])
  ELSE AtLeast(ratio(Lower(f.canonical_name), Lower(e.canonical_name)),
               [num |-> 9, den |-> 10])

\* C27: find_duplicates reports a pair of distinct entries exactly when they
\* have the same field_type and labels of similarity at least 0.9, each such
\* pair once, and no pair of entries of different types.
DuplicatesAreTheSimilarPairs ==
  probe.pc = "done" =>
    /\ \A e, f \in catalog :
         e # f =>
           (Reported(e, f) <=>
              (e.field_type = f.field_type /\ SimilarLabels(e, f)))
    /\ \A i, j \in DOMAIN probe.duplicates :
         i # j =>
           {probe.duplicates[i].field1, probe.duplicates[i].field2}
             # {probe.duplicates[j].field1, probe.duplicates[j].field2}
    /\ \A i \in DOMAIN probe.duplicates :
         /\ probe.duplicates[i].field1 \in catalog
         /\ probe.duplicates[i].field2 \in catalog
         /\ probe.duplicates[i].field1 # probe.duplicates[i].field2
         /\ probe.duplicates[i].field1.field_type
              = probe.duplicates[i].field2.field_type

\* find_duplicates has reported a pair on a catalog that also holds two
\* entries of the same label and of different types
DuplicatesAreTheSimilarPairsWitness ==
  /\ probe.pc = "done"
  /\ Len(probe.duplicates) >= 1
  /\ \E e, f \in catalog :
       /\ e.canonical_name = f.canonical_name
       /\ e.field_type # f.field_type
       /\ ~Reported(e, f)

\* The category the type of a field gives when no purpose is detected
CategoryOfType(field_type) ==
  CASE field_type = "checkbox" -> "Compliance & Declarations"
    [] field_type \in {"email", "tel"} -> "Contact Information"
    [] field_type = "date" -> "Personal Information"
    [] OTHER -> "Other"

\* C28: the suggested field_key is the key of the detected purpose, and the
\* normalized name when no purpose is detected (and the name has a key); the
\* suggested category is the category of the detected purpose, and the one
\* the type gives when no purpose is detected.
SuggestionFollowsPurposeThenType ==
  probe.pc = "done" =>
    IF probe.detected # 0 THEN
      /\ probe.key = AfterLastDot(FIELD_PURPOSES[probe.detected].purpose)
      /\ probe.category = FIELD_PURPOSES[probe.detected].category
    ELSE
      /\ KeyFromName(probe.field_name) # <<>> =>
           probe.key = KeyFromName(probe.field_name)
      /\ probe.category = CategoryOfType(probe.field_type)

\* C29: the five key normalizers give the same key for every raw name
\* (FieldValidator.normalize_field_key for every name it gives a key for).
NormalizersAgree ==
  probe.pc = "done" =>
    /\ probe.smart = probe.matcher
    /\ probe.sync = probe.matcher
    /\ probe.importer = probe.matcher
    /\ probe.validator # ValueError => probe.validator = probe.matcher

\* The request of p ends in this step with an error
Fails(p) ==
  /\ req[p].pc # "done"
  /\ req'[p].pc = "done"
  /\ req'[p].result # "ok"

\* C30: the step in which create_application_type fails leaves the committed
\* catalog as it is and discards what the request has flushed, and the
\* committed catalog changes in no step but one in which a request ends
\* successfully: nothing of a failed batch is ever visible.
FailedImportLeavesNoTrace ==
  [][/\ \A p \in Procs :
          (req[p].op = "create_application_type" /\ Fails(p)) =>
            /\ catalog' = catalog
            /\ lock' # p
            /\ lock = p => tx' = NoTx
     /\ catalog' # catalog =>
          \E q \in Procs :
            /\ req'[q].pc = "done"
            /\ req'[q].result = "ok"
            /\ req'[q] # req[q] \/ started' # started]_vars

\* create_application_type has failed at the second descriptor after it had
\* created an entry for the first, and the entry is not in the catalog
FailedImportLeavesNoTraceWitness ==
  \E p \in Procs :
    /\ req[p].op = "create_application_type"
    /\ req[p].pc = "done"
    /\ req[p].result \notin {"ok", ""}
    /\ \E key \in req[p].made : key \notin Keys(catalog)

====
